---- MODULE Spec2Model ----
(***************************************************************************)
(* Run execution subsystem of relay-inventory-service: the control API's   *)
(* run creation, the job queue, the run store and the worker's             *)
(* _process_message / run_job state machine.                               *)
(***************************************************************************)
EXTENDS Integers, Sequences, FiniteSets, TLC

(* ------------------------------ bounds --------------------------------- *)
MaxRuns == 2
MaxTenants == 1
MaxWorkers == 2
\* runs of the at-least-once specification
MaxRedeliveredRuns == 1
\* config versions and config contents of the tenant-store specification
MaxConfigVersion == 3
MaxConfigs == 2
MaxVendors == 2
MaxRecords == 1
MaxVendorErrors == 2
MaxInvalidRows == 2
MaxRunIdLen == 2
MaxIdLen == 1
MaxSourceKeyLen == 2
MaxUploads == 2
MaxMergeRecords == 3
MaxSkus == 2
MaxVendorIds == 2
MaxCost == 1
MaxShippingHandling == 1
MaxPricedRecords == 2
MaxCsvRows == 3
MaxObjectKeys == 3
MaxLastModified == 2
MaxLockTenants == 2
MaxFutures == 3
MaxWorkerConcurrency == 2
MaxHeartbeats == 3
\* WORKER_POISON_MAX_RECEIVES, the environment's setting of the model runs
poison_max_receives == 3

(* ------------------------- program constants --------------------------- *)
\* the queue's redrive policy takes a message away after this many receives
MaxReceiveCount == poison_max_receives + 1
tenant_backoff_seconds == 30
visibility_timeout_seconds == 300
visibility_heartbeat_seconds == 60
\* visibility of a message that no change_visibility call has touched
queue_default_visibility == 0

RunIds == 1..MaxRuns
Tenants == 1..MaxTenants
Workers == 1..MaxWorkers
RedeliveredRunIds == 1..MaxRedeliveredRuns
ConfigVersions == 1..MaxConfigVersion
ConfigNames == <<"config_a", "config_b", "config_c">>
Configs == {ConfigNames[i] : i \in 1..MaxConfigs}

None == "NONE"

VARIABLES
    runs,            \* the run store: run_id -> RunRecord
    queue,           \* the job queue: run_id -> the message of that run
    wk,              \* per _process_message execution slot: position and locals
    errors_object,   \* object store: run_id -> reports/errors.json was uploaded
    runs_has_probe,  \* hasattr(runs, "find_running_by_tenant")
    tenants,         \* the tenant store: config_version -> config of the tenant's item
    pinned,          \* the created run: its config_version and the config stored then
    run_config,      \* the config run_job has read for the run
    rj,              \* one run_job execution followed through its data: inputs, locals, record
    uploads,         \* object store writes of the workers: who wrote which key as which artifact
    call,            \* one call of an engine or adapter function: its arguments and its result
    loop,            \* run_forever of one worker process: its position, its futures
    heartbeat        \* one _process_message execution and the heartbeat thread of its message

\* the queue loop and the run store
worker_vars == <<runs, queue, wk, errors_object, runs_has_probe>>
\* the tenant store and the config a run is pinned to
tenant_vars == <<tenants, pinned, run_config>>
\* the threads of one worker process
thread_vars == <<loop, heartbeat>>
\* what the steps of the queue loop leave alone
data_vars == <<tenant_vars, rj, uploads, call, thread_vars>>

vars == <<worker_vars, data_vars>>

(* ----------------------------- run store ------------------------------- *)
stages == <<"QUEUE", "FETCH_INPUTS", "NORMALIZE", "MERGE_PRICE", "WRITE_OUTPUTS", "COMPLETE">>

stage_index(stage) == CHOOSE i \in 1..Len(stages) : stages[i] = stage

\* a run_id no RunRecord has been created for
NoRecord ==
    [tenant_id |-> 0, status |-> None, stage |-> None, failed_stage |-> None,
     error_code |-> None, error_message |-> None, finished_at |-> None,
     errors_artifact_key |-> None, error_report_key |-> None]

RunRecord(tenant_id, status) == [NoRecord EXCEPT !.tenant_id = tenant_id, !.status = status]

\* an update that sets the given fields and removes nothing
update_status_without_remove(record, status, kwargs, clear_fields) ==
    [k \in DOMAIN record |->
        IF k = "status" THEN status
        ELSE IF k \in DOMAIN kwargs THEN kwargs[k]
        ELSE record[k]]

\* partial update: the given fields are set, clear_fields are removed
update_status(record, status, kwargs, clear_fields) ==
    [k \in DOMAIN record |->
        IF k = "status" THEN status
        ELSE IF k \in clear_fields THEN None
        ELSE IF k \in DOMAIN kwargs THEN kwargs[k]
        ELSE record[k]]

\* a probe that returns the first RUNNING record of any tenant
find_running_by_any_tenant(tenant_id) ==
    LET running == {r \in RunIds : runs[r].status = "RUNNING"}
    IN  IF running = {} THEN 0 ELSE CHOOSE r \in running : \A o \in running : r <= o

\* the first RUNNING record of the tenant in the store's iteration order, 0 if none
find_running_by_tenant(tenant_id) ==
    LET running == {r \in RunIds : runs[r].tenant_id = tenant_id /\ runs[r].status = "RUNNING"}
    IN  IF running = {} THEN 0 ELSE CHOOSE r \in running : \A o \in running : r <= o

\* current: the stage that self.runs.get(run_id) returned to _coerce_stage
coerce_stage(current, stage) ==
    IF current = None THEN stage
    ELSE IF stage_index(stage) < stage_index(current) THEN current
    ELSE stage

\* Worker._update_run_status: the stage is clamped against the stage read
\* (current), then the store is updated by a second call
update_run_status(run_id, current, status, kwargs, clear_fields) ==
    LET coerced == IF "stage" \in DOMAIN kwargs
                   THEN [kwargs EXCEPT !.stage = coerce_stage(current, kwargs.stage)]
                   ELSE kwargs
    IN  [runs EXCEPT ![run_id] = update_status(runs[run_id], status, coerced, clear_fields)]

find_active_tenant_run(tenant_id, exclude_run_id) ==
    IF ~runs_has_probe THEN 0
    ELSE LET record == find_running_by_tenant(tenant_id)
         IN  IF record # 0 /\ record # exclude_run_id THEN record ELSE 0

(* ------------------------------- queue --------------------------------- *)
NoMessage == [state |-> "none", receive_count |-> 0, visibility |-> queue_default_visibility]

\* SqsAdapter.delete: the call either removes the message or fails (ClientError,
\* caught by every caller); a failed call leaves the message in flight
Deleted == [NoMessage EXCEPT !.state = "deleted"]

queue_delete(run_id, ok) ==
    [queue EXCEPT ![run_id] =
        IF ok THEN Deleted
        ELSE IF @.state = "inflight" THEN [@ EXCEPT !.state = "delete_failed"] ELSE @]

\* SqsAdapter.change_visibility: a failed call (ClientError, caught by every
\* caller) leaves the visibility as it was
queue_change_visibility(run_id, seconds, ok) ==
    IF ok THEN [queue EXCEPT ![run_id].visibility = seconds] ELSE queue

InFlight(run_id) == queue[run_id].state \in {"inflight", "delete_failed"}

(* --------------------------- tenant store ------------------------------ *)
\* DynamoTenants.put: the item under (tenant_id, config_version) is replaced
tenants_put(config_version, config) == [tenants EXCEPT ![config_version] = config]

\* DynamoTenants.get: the item under (tenant_id, config_version), None if absent
tenants_get(config_version) == tenants[config_version]

\* DynamoTenants.get_latest: the highest config_version with an item, 0 if none
tenants_get_latest ==
    LET stored == {v \in ConfigVersions : tenants[v] # None}
    IN  IF stored = {} THEN 0 ELSE CHOOSE v \in stored : \A o \in stored : o <= v

NotCreated == [config_version |-> 0, config |-> None]

\* run_job has not read the tenant config
NotStarted == "NOT_STARTED"

(* ------------------------------ workers -------------------------------- *)
\* pc: position in _process_message; run_id, receive_count: the message;
\* event: the last log_event of the execution ("exception": none, an exception
\* left _process_message)
\* current: the stage _coerce_stage has read for the update that w makes next,
\* Unread while that read and its write are not separated by another step
Unread == "UNREAD"

Idle == [pc |-> "idle", run_id |-> 0, receive_count |-> 0, event |-> None, current |-> Unread]

\* the execution has returned (or raised); the future is done
Done(w, event) ==
    [wk EXCEPT ![w].pc = "done", ![w].event = event, ![w].receive_count = 0,
               ![w].current = Unread]

\* (message.receive_count is not read after the poison check)
Goto(w, pc) == [wk EXCEPT ![w].pc = pc, ![w].receive_count = 0, ![w].current = Unread]

\* no run created, no message, every slot free
InitWorker ==
    /\ runs = [r \in RunIds |-> NoRecord]
    /\ queue = [r \in RunIds |-> NoMessage]
    /\ wk = [w \in Workers |-> Idle]
    /\ errors_object = [r \in RunIds |-> FALSE]

\* no tenant item, no run created
InitTenants ==
    /\ tenants = [v \in ConfigVersions |-> None]
    /\ pinned = NotCreated
    /\ run_config = NotStarted

\* no function call is followed
NoCall == [fn |-> "none"]

\* no run_forever loop and no heartbeat thread is followed
NoLoop == [pc |-> "none"]

NoHeartbeat == [pc |-> "none"]

InitThreads ==
    /\ loop = NoLoop
    /\ heartbeat = NoHeartbeat

\* no run_job execution is followed through its data
NoRunJob == [pc |-> "none"]

Init ==
    /\ InitWorker
    /\ runs_has_probe \in BOOLEAN
    /\ InitTenants
    /\ InitThreads
    /\ rj = NoRunJob
    /\ uploads = {}
    /\ call = NoCall

(* --------------------------- control API ------------------------------- *)
\* POST /v1/runs: 409 when the probe finds a RUNNING run of the tenant, else a
\* QUEUED record is created and the job is sent to the queue
create_run(run_id, tenant_id) ==
    /\ runs[run_id].status = None
    /\ \A r \in RunIds : r < run_id => runs[r].status # None
    /\ ~(runs_has_probe /\ find_running_by_tenant(tenant_id) # 0)
    /\ runs' = [runs EXCEPT ![run_id] = RunRecord(tenant_id, "QUEUED")]
    /\ queue' = [queue EXCEPT ![run_id].state = "visible"]
    /\ UNCHANGED <<wk, errors_object, runs_has_probe, data_vars>>

(* ------------------------------ delivery ------------------------------- *)
\* an execution that has not returned holds the message: the visibility
\* timeout outlasts the steps before run_job and the heartbeat extends it
\* for as long as run_job executes
Held(run_id) == \E w \in Workers : wk[w].run_id = run_id /\ wk[w].pc \notin {"done", "dead"}

\* the visibility timeout of an in-flight message expires
visibility_expires(run_id) ==
    /\ InFlight(run_id)
    /\ ~Held(run_id)
    /\ queue' = [queue EXCEPT ![run_id].state = "visible",
                              ![run_id].visibility = queue_default_visibility]
    /\ UNCHANGED <<runs, wk, errors_object, runs_has_probe, data_vars>>

\* run_forever: queue.receive() hands a visible message to a free slot
receive(w, run_id) ==
    /\ wk[w].pc = "idle"
    /\ \A v \in Workers : v < w => wk[v].pc # "idle"
    /\ queue[run_id].state = "visible"
    /\ queue[run_id].receive_count < MaxReceiveCount
    /\ queue' = [queue EXCEPT ![run_id].state = "inflight",
                              ![run_id].receive_count = @ + 1]
    /\ wk' = [wk EXCEPT ![w] = [Idle EXCEPT !.pc = "process_message", !.run_id = run_id,
                                            !.receive_count = queue[run_id].receive_count + 1]]
    /\ UNCHANGED <<runs, errors_object, runs_has_probe, data_vars>>

\* the worker process dies; its message stays in flight until the timeout
\* ("dead" keeps the run_id of a process that died after run_job's first write)
crash(w) ==
    /\ wk[w].pc \notin {"idle", "done", "dead"}
    /\ wk' = [wk EXCEPT ![w] =
                IF wk[w].pc \in {"process_message", "run_job"} THEN Idle
                ELSE [Idle EXCEPT !.pc = "dead", !.run_id = wk[w].run_id]]
    /\ UNCHANGED <<runs, queue, errors_object, runs_has_probe, data_vars>>

\* a new worker process takes the place of the dead one
restart(w) ==
    /\ wk[w].pc = "dead"
    /\ wk' = [wk EXCEPT ![w] = Idle]
    /\ UNCHANGED <<runs, queue, errors_object, runs_has_probe, data_vars>>

\* run_forever collects the finished future and the slot is free again
future_done(w) ==
    /\ wk[w].pc = "done"
    /\ wk' = [wk EXCEPT ![w] = Idle]
    /\ UNCHANGED <<runs, queue, errors_object, runs_has_probe, data_vars>>

(* ------------------------ Worker._process_message ---------------------- *)
\* record = self.runs.get(job.run_id), read in the step that acts on it
record(w) == runs[wk[w].run_id]

\* the stage _coerce_stage works with: read earlier, or read now
current(w) == IF wk[w].current = Unread THEN record(w).stage ELSE wk[w].current

IsDuplicate(w) == record(w).status \in {"RUNNING", "SUCCEEDED"}
IsPoisonFailed(w) == record(w).status = "FAILED" /\ record(w).error_code = "POISON_JOB"
IsPoison(w) == wk[w].receive_count >= poison_max_receives

\* a duplicate branch that returns without deleting the message
run_already_processed_without_delete(w) ==
    /\ wk[w].pc = "process_message"
    /\ IsDuplicate(w)
    /\ wk' = Done(w, "run_already_processed")
    /\ UNCHANGED <<runs, queue, errors_object, runs_has_probe, data_vars>>

\* record.status in {RUNNING, SUCCEEDED}: delete the message and return
run_already_processed(w) ==
    /\ wk[w].pc = "process_message"
    /\ IsDuplicate(w)
    /\ \E ok \in BOOLEAN : queue' = queue_delete(wk[w].run_id, ok)
    /\ wk' = Done(w, "run_already_processed")
    /\ UNCHANGED <<runs, errors_object, runs_has_probe, data_vars>>

\* a POISON_JOB branch that deletes the message like the duplicate branch
poison_job_already_failed_deleting(w) ==
    /\ wk[w].pc = "process_message"
    /\ ~IsDuplicate(w)
    /\ IsPoisonFailed(w)
    /\ \E ok \in BOOLEAN : queue' = queue_delete(wk[w].run_id, ok)
    /\ wk' = Done(w, "poison_job_already_failed")
    /\ UNCHANGED <<runs, errors_object, runs_has_probe, data_vars>>

\* record is FAILED with POISON_JOB: return
poison_job_already_failed(w) ==
    /\ wk[w].pc = "process_message"
    /\ ~IsDuplicate(w)
    /\ IsPoisonFailed(w)
    /\ wk' = Done(w, "poison_job_already_failed")
    /\ UNCHANGED <<runs, queue, errors_object, runs_has_probe, data_vars>>

\* receive_count >= poison_max_receives: FAILED / POISON_JOB, no delete
poison_job_detected(w) ==
    /\ wk[w].pc = "process_message"
    /\ ~IsDuplicate(w)
    /\ ~IsPoisonFailed(w)
    /\ IsPoison(w)
    /\ runs' = update_run_status(wk[w].run_id, current(w), "FAILED",
                    [stage |-> "QUEUE", failed_stage |-> "QUEUE", finished_at |-> "SET",
                     error_code |-> "POISON_JOB", error_message |-> "SET"], {})
    /\ wk' = Done(w, "poison_job_detected")
    /\ UNCHANGED <<queue, errors_object, runs_has_probe, data_vars>>

ActiveRun(w) == find_active_tenant_run(record(w).tenant_id, wk[w].run_id)

\* another run of the tenant is RUNNING: back off, no delete
tenant_run_in_progress(w) ==
    /\ wk[w].pc = "process_message"
    /\ ~IsDuplicate(w)
    /\ ~IsPoisonFailed(w)
    /\ ~IsPoison(w)
    /\ ActiveRun(w) # 0
    /\ \E ok \in BOOLEAN :
            queue' = queue_change_visibility(wk[w].run_id, tenant_backoff_seconds, ok)
    /\ wk' = Done(w, "tenant_run_in_progress")
    /\ UNCHANGED <<runs, errors_object, runs_has_probe, data_vars>>

\* record.status == FAILED: delete the message and return
failed_already_processed(w) ==
    /\ wk[w].pc = "process_message"
    /\ ~IsPoisonFailed(w)
    /\ ~IsPoison(w)
    /\ ActiveRun(w) = 0
    /\ record(w).status = "FAILED"
    /\ \E ok \in BOOLEAN : queue' = queue_delete(wk[w].run_id, ok)
    /\ wk' = Done(w, "run_already_processed")
    /\ UNCHANGED <<runs, errors_object, runs_has_probe, data_vars>>

\* _start_visibility_heartbeat, then run_job is entered
start_visibility_heartbeat(w) ==
    /\ wk[w].pc = "process_message"
    /\ ~IsDuplicate(w)
    /\ ~IsPoison(w)
    /\ ActiveRun(w) = 0
    /\ record(w).status # "FAILED"
    /\ \E ok \in BOOLEAN :
            queue' = queue_change_visibility(wk[w].run_id, visibility_timeout_seconds, ok)
    /\ wk' = Goto(w, "run_job")
    /\ UNCHANGED <<runs, errors_object, runs_has_probe, data_vars>>

(* ---------------------------- Worker.run_job --------------------------- *)
\* one error_code per failing stage; REQUIRED_VENDOR_MISSING and
\* unsupported_schema_version fail like missing_tenant_config, missing_required_columns
\* and invalid_input like DECODE_ERROR, no_rows_parsed like validation_errors
fetch_error_codes == {"missing_tenant_config"}
normalize_error_codes == {"DECODE_ERROR"}
gate_error_codes == {"validation_errors"}

\* Worker._fail_run: the error report exists (synthesized when errors_key is
\* missing), then the failure fields are written; NonRetryableError follows
fail_run(w, stage, error_code) ==
    /\ errors_object' = [errors_object EXCEPT ![wk[w].run_id] = TRUE]
    /\ runs' = update_run_status(wk[w].run_id, current(w), "FAILED",
                    [stage |-> stage, failed_stage |-> stage, finished_at |-> "SET",
                     error_code |-> error_code, error_message |-> "SET",
                     errors_artifact_key |-> "errors.json",
                     error_report_key |-> "errors.json"], {})
    /\ wk' = Goto(w, "NonRetryableError")
    /\ UNCHANGED queue

\* a RetryableError handler that deletes the message like the other handlers
on_retryable_error_deleting(w) ==
    /\ \E ok \in BOOLEAN : queue' = queue_delete(wk[w].run_id, ok)
    /\ wk' = Done(w, "run_retryable_error")

\* except RetryableError: metric and log only, the message is not deleted
on_retryable_error(w) ==
    /\ wk' = Done(w, "run_retryable_error")
    /\ UNCHANGED queue

\* an object-store call raised BotoCoreError/ClientError: run_job raises
\* RetryableError, which _process_message handles
raise_retryable(w) ==
    /\ on_retryable_error(w)
    /\ UNCHANGED <<runs, errors_object>>

\* else: run_job returned, delete the message
on_success(w) ==
    /\ \E ok \in BOOLEAN : queue' = queue_delete(wk[w].run_id, ok)
    /\ wk' = Done(w, "run_succeeded")

\* any other exception leaves _process_message through the finally clause
on_exception(w) ==
    /\ wk' = Done(w, "exception")
    /\ UNCHANGED queue

\* status=RUNNING, stage=FETCH_INPUTS
run_job_set_running(w) ==
    /\ wk[w].pc = "run_job"
    /\ runs' = update_run_status(wk[w].run_id, current(w), "RUNNING", [stage |-> "FETCH_INPUTS"], {})
    /\ wk' = Goto(w, "fetch_inputs")
    /\ UNCHANGED <<queue, errors_object, runs_has_probe, data_vars>>

\* config snapshot, vendor inputs, manifest, missing-vendor policy, schema check
run_job_fetch_inputs(w) ==
    /\ wk[w].pc = "fetch_inputs"
    /\ \/ \E code \in fetch_error_codes : fail_run(w, "FETCH_INPUTS", code)
       \/ raise_retryable(w)
       \/ /\ runs' = update_run_status(wk[w].run_id, current(w), "RUNNING", [stage |-> "NORMALIZE"], {})
          /\ wk' = Goto(w, "normalize")
          /\ UNCHANGED <<queue, errors_object>>
    /\ UNCHANGED <<runs_has_probe, data_vars>>

\* run_inventory_sync and its exception handlers
run_job_normalize(w) ==
    /\ wk[w].pc = "normalize"
    /\ \/ \E code \in normalize_error_codes : fail_run(w, "NORMALIZE", code)
       \/ raise_retryable(w)
       \/ /\ runs' = update_run_status(wk[w].run_id, current(w), "RUNNING", [stage |-> "MERGE_PRICE"], {})
          /\ wk' = Goto(w, "merge_price")
          /\ UNCHANGED <<queue, errors_object>>
    /\ UNCHANGED <<runs_has_probe, data_vars>>

\* normalized CSVs, the error report (when there are entries), the error-policy gate
run_job_merge_price(w) ==
    /\ wk[w].pc = "merge_price"
    /\ \/ \E code \in gate_error_codes : fail_run(w, "MERGE_PRICE", code)
       \/ raise_retryable(w)
       \/ \* total_rows = 0 with missing-vendor entries: invalid_rows / total_rows raises
          /\ errors_object' = [errors_object EXCEPT ![wk[w].run_id] = TRUE]
          /\ on_exception(w)
          /\ UNCHANGED runs
       \/ \E error_entries \in BOOLEAN :
             /\ errors_object' = [errors_object EXCEPT ![wk[w].run_id] = @ \/ error_entries]
             /\ runs' = update_run_status(wk[w].run_id, current(w), "RUNNING", [stage |-> "WRITE_OUTPUTS"], {})
             /\ wk' = Goto(w, "write_outputs")
             /\ UNCHANGED queue
    /\ UNCHANGED <<runs_has_probe, data_vars>>

\* merged_inventory.csv, run_summary.json, then SUCCEEDED / COMPLETE
run_job_write_outputs(w) ==
    /\ wk[w].pc = "write_outputs"
    /\ \/ raise_retryable(w)
       \/ /\ runs' = update_run_status(wk[w].run_id, current(w), "SUCCEEDED",
                          [stage |-> "COMPLETE", finished_at |-> "SET"],
                          {"failed_stage", "error_code", "error_message",
                           "errors_artifact_key", "error_report_key"})
          /\ on_success(w)
          /\ UNCHANGED errors_object
    /\ UNCHANGED <<runs_has_probe, data_vars>>

(* ------------- Worker._process_message: outcome of run_job ------------- *)
\* except NonRetryableError: delete, then FAILED with finished_at
on_non_retryable_error(w) ==
    /\ wk[w].pc = "NonRetryableError"
    /\ \E ok \in BOOLEAN : queue' = queue_delete(wk[w].run_id, ok)
    /\ runs' = update_run_status(wk[w].run_id, current(w), "FAILED",
                    [finished_at |-> "SET", error_message |-> "SET"], {})
    /\ wk' = Done(w, "run_failed")
    /\ UNCHANGED <<errors_object, runs_has_probe, data_vars>>

Next ==
    \/ \E r \in RunIds, t \in Tenants : create_run(r, t)
    \/ \E r \in RunIds : visibility_expires(r)
    \/ \E w \in Workers, r \in RunIds : receive(w, r)
    \/ \E w \in Workers : crash(w)
    \/ \E w \in Workers : restart(w)
    \/ \E w \in Workers : future_done(w)
    \/ \E w \in Workers : run_already_processed(w)
    \/ \E w \in Workers : poison_job_already_failed(w)
    \/ \E w \in Workers : poison_job_detected(w)
    \/ \E w \in Workers : tenant_run_in_progress(w)
    \/ \E w \in Workers : failed_already_processed(w)
    \/ \E w \in Workers : start_visibility_heartbeat(w)
    \/ \E w \in Workers : run_job_set_running(w)
    \/ \E w \in Workers : run_job_fetch_inputs(w)
    \/ \E w \in Workers : run_job_normalize(w)
    \/ \E w \in Workers : run_job_merge_price(w)
    \/ \E w \in Workers : run_job_write_outputs(w)
    \/ \E w \in Workers : on_non_retryable_error(w)

Spec == Init /\ [][Next]_vars

(* ---------------------- at-least-once delivery ------------------------- *)
\* the message becomes visible while an execution still holds it: the queue
\* delivers at least once, and a change_visibility call that fails is only
\* logged (queue_visibility_error), so the timeout can lapse under run_job
visibility_lapses(run_id) ==
    /\ queue[run_id].state = "inflight"
    /\ Held(run_id)
    /\ queue' = [queue EXCEPT ![run_id].state = "visible",
                              ![run_id].visibility = queue_default_visibility]
    /\ UNCHANGED <<runs, wk, errors_object, runs_has_probe, data_vars>>

\* _coerce_stage has read the record (self.runs.get) for the update that w makes
\* next in run_job; the write (self.runs.update_status) is a later step
coerce_stage_reads(w) ==
    /\ wk[w].pc \in {"run_job", "fetch_inputs", "normalize", "merge_price", "write_outputs"}
    /\ wk[w].current = Unread
    /\ wk' = [wk EXCEPT ![w].current = record(w).stage]
    /\ UNCHANGED <<runs, queue, errors_object, runs_has_probe, data_vars>>

\* queue.receive() returns a message that create_run did not send: its body is
\* not a job (the queue accepts any sender's message)
receive_malformed(w) ==
    /\ wk[w].pc = "idle"
    /\ \A v \in Workers : v < w => wk[v].pc # "idle"
    /\ wk' = [wk EXCEPT ![w] = [Idle EXCEPT !.pc = "model_validate"]]
    /\ UNCHANGED <<runs, queue, errors_object, runs_has_probe, data_vars>>

\* RunJob.model_validate(message.body) raises ValidationError; _process_message
\* has no handler around it, so the exception leaves _process_message
model_validate_raises(w) ==
    /\ wk[w].pc = "model_validate"
    /\ wk' = Done(w, "exception")
    /\ UNCHANGED <<runs, queue, errors_object, runs_has_probe, data_vars>>

\* one run, delivered at least once, to the worker as it is constructed
\* (self.runs = DynamoRuns: no tenant probe)
InitAtLeastOnce == InitWorker /\ runs_has_probe = FALSE /\ InitTenants /\ InitThreads /\ rj = NoRunJob /\ uploads = {} /\ call = NoCall

NextAtLeastOnce ==
    \/ \E r \in RedeliveredRunIds, t \in Tenants : create_run(r, t)
    \/ \E r \in RedeliveredRunIds : visibility_expires(r)
    \/ \E r \in RedeliveredRunIds : visibility_lapses(r)
    \/ \E w \in Workers, r \in RedeliveredRunIds : receive(w, r)
    \/ \E w \in Workers : receive_malformed(w)
    \/ \E w \in Workers : model_validate_raises(w)
    \/ \E w \in Workers : crash(w)
    \/ \E w \in Workers : restart(w)
    \/ \E w \in Workers : future_done(w)
    \/ \E w \in Workers : run_already_processed(w)
    \/ \E w \in Workers : poison_job_already_failed(w)
    \/ \E w \in Workers : poison_job_detected(w)
    \/ \E w \in Workers : failed_already_processed(w)
    \/ \E w \in Workers : start_visibility_heartbeat(w)
    \/ \E w \in Workers : coerce_stage_reads(w)
    \/ \E w \in Workers : run_job_set_running(w)
    \/ \E w \in Workers : run_job_fetch_inputs(w)
    \/ \E w \in Workers : run_job_normalize(w)
    \/ \E w \in Workers : run_job_merge_price(w)
    \/ \E w \in Workers : run_job_write_outputs(w)
    \/ \E w \in Workers : on_non_retryable_error(w)

SpecAtLeastOnce == InitAtLeastOnce /\ [][NextAtLeastOnce]_vars

(* ------------------------ runs of several tenants ----------------------- *)
LockTenants == 1..MaxLockTenants

\* the queue loop with runs of different tenants, for a run store with or
\* without the tenant probe
InitTenantLock == Init

NextTenantLock ==
    \/ \E r \in RunIds, t \in LockTenants : create_run(r, t)
    \/ \E r \in RunIds : visibility_expires(r)
    \/ \E w \in Workers, r \in RunIds : receive(w, r)
    \/ \E w \in Workers : future_done(w)
    \/ \E w \in Workers : run_already_processed(w)
    \/ \E w \in Workers : poison_job_already_failed(w)
    \/ \E w \in Workers : poison_job_detected(w)
    \/ \E w \in Workers : tenant_run_in_progress(w)
    \/ \E w \in Workers : failed_already_processed(w)
    \/ \E w \in Workers : start_visibility_heartbeat(w)
    \/ \E w \in Workers : run_job_set_running(w)
    \/ \E w \in Workers : run_job_fetch_inputs(w)
    \/ \E w \in Workers : run_job_normalize(w)
    \/ \E w \in Workers : run_job_merge_price(w)
    \/ \E w \in Workers : run_job_write_outputs(w)
    \/ \E w \in Workers : on_non_retryable_error(w)

SpecTenantLock == InitTenantLock /\ [][NextTenantLock]_vars

(* ------------------- tenant configs and the pinned run ------------------ *)
\* POST /v1/tenants: the config is stored as config_version 1
create_tenant(config) ==
    /\ tenants' = tenants_put(1, config)
    /\ UNCHANGED <<pinned, run_config, worker_vars, rj, uploads, call, thread_vars>>

\* PUT /v1/tenants/{tenant_id}/config: stored as the latest version + 1
update_tenant_config(config) ==
    /\ tenants_get_latest < MaxConfigVersion
    /\ tenants' = tenants_put(tenants_get_latest + 1, config)
    /\ UNCHANGED <<pinned, run_config, worker_vars, rj, uploads, call, thread_vars>>

\* POST /v1/runs: the run takes the latest config_version (1 when the tenant has
\* no item); pinned.config is what the store holds under that version now
create_run_pins_version ==
    /\ pinned = NotCreated
    /\ LET config_version == IF tenants_get_latest = 0 THEN 1 ELSE tenants_get_latest
       IN  pinned' = [config_version |-> config_version, config |-> tenants_get(config_version)]
    /\ UNCHANGED <<tenants, run_config, worker_vars, rj, uploads, call, thread_vars>>

\* run_job: tenant_record = self.tenants.get(job.tenant_id, job.config_version);
\* None ends the run with missing_tenant_config
run_job_reads_config ==
    /\ pinned # NotCreated
    /\ run_config = NotStarted
    /\ run_config' = tenants_get(pinned.config_version)
    /\ UNCHANGED <<tenants, pinned, worker_vars, rj, uploads, call, thread_vars>>

InitTenantStore == InitWorker /\ runs_has_probe = FALSE /\ InitTenants /\ InitThreads /\ rj = NoRunJob /\ uploads = {} /\ call = NoCall

NextTenantStore ==
    \/ \E config \in Configs : create_tenant(config)
    \/ \E config \in Configs : update_tenant_config(config)
    \/ create_run_pins_version
    \/ run_job_reads_config

SpecTenantStore == InitTenantStore /\ [][NextTenantStore]_vars

(* ------------- run_job followed through its data: one execution --------- *)
\* what list_latest and the engine's parser find for one vendor of the config
VendorInputs ==
    {v \in [required : BOOLEAN, latest : BOOLEAN,
            records : 0..MaxRecords, vendor_errors : 0..MaxVendorErrors] :
        ~v.latest => (v.records = 0 /\ v.vendor_errors = 0)}

VendorLists == UNION {[1..n -> VendorInputs] : n \in 1..MaxVendors}

\* error_policy.max_invalid_row_pct, in percent
RowPcts == {0, 50, 100}

\* the exception run_inventory_sync raises for the inputs, None if it returns
EngineFaults == {None, "DECODE_ERROR", "missing_required_columns", "invalid_input"}

ParseError(row_number, reason, vendor) ==
    [row_number |-> row_number, reason |-> reason, vendor |-> vendor]

MissingVendorError(error_code, vendor_id) ==
    [error_code |-> error_code, vendor_id |-> vendor_id]

\* the vendors without an input, required or optional, in config order
missing_vendors(vendors, required) ==
    LET F[i \in 0..Len(vendors)] ==
            IF i = 0 THEN <<>>
            ELSE IF ~vendors[i].latest /\ vendors[i].required = required
                 THEN Append(F[i - 1], i)
                 ELSE F[i - 1]
    IN  F[Len(vendors)]

\* the entries and warnings run_job keeps for the missing vendors: the optional
\* ones first, then (under warn_only) the required ones
missing_vendor_entries(vendors) ==
    LET missing_optional == missing_vendors(vendors, FALSE)
        missing_required == missing_vendors(vendors, TRUE)
    IN  [i \in 1..Len(missing_optional) |->
            MissingVendorError("OPTIONAL_VENDOR_MISSING", missing_optional[i])]
        \o [i \in 1..Len(missing_required) |->
            MissingVendorError("REQUIRED_VENDOR_MISSING", missing_required[i])]

missing_vendor_warnings(vendors) ==
    LET missing_optional == missing_vendors(vendors, FALSE)
        missing_required == missing_vendors(vendors, TRUE)
    IN  [i \in 1..Len(missing_optional) |-> <<"optional_vendor_missing", missing_optional[i]>>]
        \o [i \in 1..Len(missing_required) |-> <<"required_vendor_missing", missing_required[i]>>]

\* run_inventory_sync: a vendor without input adds one ParseError and no rows;
\* a vendor with input adds its row errors, and records + row errors to total_rows
run_inventory_sync(vendors) ==
    LET F[i \in 0..Len(vendors)] ==
            IF i = 0 THEN [errors |-> <<>>, total_rows |-> 0]
            ELSE IF ~vendors[i].latest
                 THEN [errors |-> Append(F[i - 1].errors, ParseError(0, "missing inbound file", i)),
                       total_rows |-> F[i - 1].total_rows]
                 ELSE [errors |-> F[i - 1].errors \o
                                  [k \in 1..vendors[i].vendor_errors |-> ParseError(k, "invalid row", i)],
                       total_rows |-> F[i - 1].total_rows + vendors[i].records + vendors[i].vendor_errors]
    IN  F[Len(vendors)]

\* the error-policy gate of run_job; invalid_rows / total_rows is evaluated
\* before invalid_rows is tested, and raises when total_rows is 0
error_policy_gate(invalid_rows, total_rows, missing_vendor_errors, max_invalid_rows, max_invalid_row_pct) ==
    IF total_rows = 0 /\ missing_vendor_errors = <<>> THEN "no_rows_parsed"
    ELSE IF total_rows = 0 THEN "ZeroDivisionError"
    ELSE IF invalid_rows # 0 /\ (invalid_rows > max_invalid_rows
                                 \/ invalid_rows * 100 > max_invalid_row_pct * total_rows)
         THEN "validation_errors"
         ELSE "continue"

\* _update_run_status on the record of the followed run
rj_update_run_status(status, kwargs, clear_fields) ==
    update_status(rj.record, status,
                  IF "stage" \in DOMAIN kwargs
                  THEN [kwargs EXCEPT !.stage = coerce_stage(rj.record.stage, kwargs.stage)]
                  ELSE kwargs,
                  clear_fields)

\* _fail_run followed by raise NonRetryableError: without an errors_key a report
\* holding the one failure entry is written to reports/errors.json
rj_failed(stage, error_code, errors_key) ==
    [rj EXCEPT
        !.pc = "done",
        !.raised = "NonRetryableError",
        !.errors_json = IF errors_key = None
                        THEN <<[error_code |-> error_code, error_message |-> "SET"]>>
                        ELSE @,
        !.artifacts = @ \cup {"errors"},
        !.record = rj_update_run_status("FAILED",
                      [stage |-> stage, failed_stage |-> stage, finished_at |-> "SET",
                       error_code |-> error_code, error_message |-> "SET",
                       errors_artifact_key |-> "errors.json",
                       error_report_key |-> "errors.json"], {})]

\* an object-store call raised: run_job raises RetryableError
rj_raise_retryable == rj' = [rj EXCEPT !.pc = "done", !.raised = "RetryableError"]

\* inputs listed and copied, then the missing-vendor policy and the manifest
run_job_missing_vendor_policy ==
    /\ rj.pc = "FETCH_INPUTS"
    /\ \/ rj_raise_retryable
       \/ IF missing_vendors(rj.vendors, TRUE) # <<>> /\ rj.missing_required_vendor_policy # "warn_only"
          THEN rj' = rj_failed("FETCH_INPUTS", "REQUIRED_VENDOR_MISSING", None)
          ELSE rj' = [rj EXCEPT
                        !.pc = "NORMALIZE",
                        !.missing_vendor_errors = missing_vendor_entries(rj.vendors),
                        !.warnings = missing_vendor_warnings(rj.vendors),
                        !.artifacts = @ \cup {"input_manifest"}]
    /\ UNCHANGED <<worker_vars, tenant_vars, uploads, call, thread_vars>>

\* stage NORMALIZE, the engine, stage MERGE_PRICE
run_job_engine ==
    /\ rj.pc = "NORMALIZE"
    /\ IF rj.engine_fault # None
       THEN rj' = rj_failed("NORMALIZE", rj.engine_fault, None)
       ELSE LET engine_result == run_inventory_sync(rj.vendors)
            IN  rj' = [rj EXCEPT
                        !.pc = "error_report",
                        !.errors = engine_result.errors,
                        !.total_rows = engine_result.total_rows,
                        !.record = rj_update_run_status("RUNNING", [stage |-> "MERGE_PRICE"], {})]
    /\ UNCHANGED <<worker_vars, tenant_vars, uploads, call, thread_vars>>

\* a report that holds the engine's errors only
error_entries_without_missing_vendors(missing_vendor_errors, errors) == errors

\* error_entries = list(missing_vendor_errors), extended by the engine's errors
error_entries_of(missing_vendor_errors, errors) == missing_vendor_errors \o errors

\* normalized files, then reports/errors.json when there is any entry
run_job_error_report ==
    /\ rj.pc = "error_report"
    /\ LET error_entries == error_entries_of(rj.missing_vendor_errors, rj.errors)
       IN  \/ rj_raise_retryable
           \/ rj' = [rj EXCEPT
                        !.pc = "error_policy_gate",
                        !.errors_json = IF error_entries # <<>> THEN error_entries ELSE @,
                        !.error_key = IF error_entries # <<>> THEN "errors.json" ELSE @,
                        !.artifacts = IF error_entries # <<>> THEN @ \cup {"errors"} ELSE @]
    /\ UNCHANGED <<worker_vars, tenant_vars, uploads, call, thread_vars>>

\* the error-policy gate: fail, raise, or go on to WRITE_OUTPUTS
run_job_error_policy_gate ==
    /\ rj.pc = "error_policy_gate"
    /\ LET invalid_rows == Len(rj.errors)
           outcome == error_policy_gate(invalid_rows, rj.total_rows, rj.missing_vendor_errors,
                                        rj.max_invalid_rows, rj.max_invalid_row_pct)
       IN  rj' = IF outcome \in {"no_rows_parsed", "validation_errors"}
                 THEN [rj_failed("MERGE_PRICE", outcome, rj.error_key) EXCEPT !.gate = outcome]
                 ELSE IF outcome = "ZeroDivisionError"
                 THEN [rj EXCEPT !.pc = "done", !.raised = outcome, !.gate = outcome]
                 ELSE [rj EXCEPT
                        !.pc = "WRITE_OUTPUTS",
                        !.gate = outcome,
                        !.warnings = IF invalid_rows # 0
                                     THEN Append(@, <<"invalid_rows_within_threshold">>)
                                     ELSE @,
                        !.record = rj_update_run_status("RUNNING", [stage |-> "WRITE_OUTPUTS"], {})]
    /\ UNCHANGED <<worker_vars, tenant_vars, uploads, call, thread_vars>>

\* merged_inventory.csv, run_summary.json, then SUCCEEDED / COMPLETE
run_job_outputs ==
    /\ rj.pc = "WRITE_OUTPUTS"
    /\ \/ rj_raise_retryable
       \/ rj' = [rj EXCEPT
                    !.pc = "done",
                    !.artifacts = @ \cup {"merged_inventory", "run_summary"},
                    !.record = rj_update_run_status("SUCCEEDED",
                                  [stage |-> "COMPLETE", finished_at |-> "SET"],
                                  {"failed_stage", "error_code", "error_message",
                                   "errors_artifact_key", "error_report_key"})]
    /\ UNCHANGED <<worker_vars, tenant_vars, uploads, call, thread_vars>>

\* the tenant config and the inbound files of the followed run
RunJobInputs ==
    {in \in [vendors : VendorLists,
             missing_required_vendor_policy : {"fail", "warn_only"},
             max_invalid_rows : 0..MaxInvalidRows,
             max_invalid_row_pct : RowPcts,
             engine_fault : EngineFaults] :
        in.engine_fault # None => \E i \in DOMAIN in.vendors : in.vendors[i].latest}

\* run_job after RUNNING / FETCH_INPUTS was written and the config snapshot uploaded
StartRunJob(in) ==
    [pc |-> "FETCH_INPUTS",
     vendors |-> in.vendors,
     missing_required_vendor_policy |-> in.missing_required_vendor_policy,
     max_invalid_rows |-> in.max_invalid_rows,
     max_invalid_row_pct |-> in.max_invalid_row_pct,
     engine_fault |-> in.engine_fault,
     missing_vendor_errors |-> <<>>, warnings |-> <<>>,
     errors |-> <<>>, total_rows |-> 0,
     artifacts |-> {"config_snapshot"}, errors_json |-> None, error_key |-> None,
     gate |-> None, raised |-> None,
     record |-> [RunRecord(1, "RUNNING") EXCEPT !.stage = "FETCH_INPUTS"]]

InitRunJob ==
    /\ InitWorker
    /\ runs_has_probe = FALSE
    /\ InitTenants
    /\ InitThreads
    /\ \E in \in RunJobInputs : rj = StartRunJob(in)
    /\ uploads = {}
    /\ call = NoCall

NextRunJob ==
    \/ run_job_missing_vendor_policy
    \/ run_job_engine
    \/ run_job_error_report
    \/ run_job_error_policy_gate
    \/ run_job_outputs

SpecRunJob == InitRunJob /\ [][NextRunJob]_vars

(* ------------ run_job followed through its calls: their order ----------- *)
\* one step of run_job: a call to a store or to the engine, the registration of
\* an artifact (artifacts[name] = key), or the evaluation of a check; a call of
\* _update_run_status is written with its status as op and its stage as name
Step(op, name, vendor) == [op |-> op, name |-> name, vendor |-> vendor]

\* the S3Adapter calls: each either returns or raises BotoCoreError / ClientError,
\* which run_job turns into RetryableError
ObjectStoreCalls == {"upload", "list_latest", "download"}

Artifact(name, vendor) == [name |-> name, vendor |-> vendor]

\* the status, stage and artifacts of the RunRecord after the steps: every
\* update sets status and the clamped stage, FAILED and SUCCEEDED also pass the
\* artifacts dict, which DynamoRuns.update_status stores when it is not empty
record_after(steps) ==
    LET artifacts(i) ==
            {Artifact(steps[j].name, steps[j].vendor) : j \in {k \in 1..i : steps[k].op = "artifact"}}
        F[i \in 0..Len(steps)] ==
            IF i = 0 THEN [status |-> "QUEUED", stage |-> None, artifacts |-> {}]
            ELSE IF steps[i].op \in {"RUNNING", "FAILED", "SUCCEEDED"}
                 THEN [status |-> steps[i].op,
                       stage |-> coerce_stage(F[i - 1].stage, steps[i].name),
                       artifacts |-> IF steps[i].op = "RUNNING" \/ artifacts(i) = {}
                                     THEN F[i - 1].artifacts
                                     ELSE artifacts(i)]
                 ELSE F[i - 1]
    IN  F[Len(steps)]

\* Worker._fail_run: the report is written when there is no errors_key, the key
\* is registered, the failure is stored
fail_run_steps(stage, errors_key) ==
    (IF errors_key = None THEN <<Step("upload", "errors", 0)>> ELSE <<>>)
    \o <<Step("artifact", "errors", 0), Step("FAILED", stage, 0)>>

\* run_job performs the planned steps and goes on at pc, or ends with the
\* exception raised; an object-store call among them may raise instead, which
\* ends run_job with RetryableError after the steps before that call
run_steps(planned, raised, pc) ==
    \/ rj' = [rj EXCEPT !.steps = @ \o planned,
                        !.raised = raised,
                        !.pc = IF raised = None THEN pc ELSE "done"]
    \/ \E k \in DOMAIN planned :
          /\ planned[k].op \in ObjectStoreCalls
          /\ rj' = [rj EXCEPT !.steps = @ \o SubSeq(planned, 1, k - 1),
                              !.raised = "RetryableError",
                              !.pc = "done"]

\* RUNNING / FETCH_INPUTS, the tenant config, config_snapshot.json
steps_config_snapshot ==
    /\ rj.pc = "run_job"
    /\ LET begin == <<Step("RUNNING", "FETCH_INPUTS", 0), Step("tenants.get", "config", 0)>>
       IN  IF ~rj.tenant_record
           THEN run_steps(begin \o fail_run_steps("FETCH_INPUTS", None), "NonRetryableError", "done")
           ELSE run_steps(begin \o <<Step("upload", "config_snapshot", 0),
                                     Step("artifact", "config_snapshot", 0)>>,
                          None, "fetch_inputs")
    /\ UNCHANGED <<worker_vars, tenant_vars, uploads, call, thread_vars>>

\* for each vendor of the config: list_latest, and for an object found its
\* download and its run-scoped copy
steps_fetch_inputs ==
    /\ rj.pc = "fetch_inputs"
    /\ LET F[i \in 0..Len(rj.vendors)] ==
               IF i = 0 THEN <<>>
               ELSE F[i - 1] \o <<Step("list_latest", "inbound", i)>>
                    \o (IF rj.vendors[i].latest
                        THEN <<Step("download", "inbound", i), Step("upload", "inbound", i),
                               Step("artifact", "inbound", i)>>
                        ELSE <<>>)
       IN  run_steps(F[Len(rj.vendors)], None, "missing_vendor_policy")
    /\ UNCHANGED <<worker_vars, tenant_vars, uploads, call, thread_vars>>

\* the missing-vendor policy, then input_manifest.json, then the schema check
steps_missing_vendor_policy ==
    /\ rj.pc = "missing_vendor_policy"
    /\ LET policy == <<Step("evaluate", "missing_vendor_policy", 0)>>
           manifest == <<Step("upload", "input_manifest", 0), Step("artifact", "input_manifest", 0),
                         Step("evaluate", "schema_version", 0)>>
       IN  IF missing_vendors(rj.vendors, TRUE) # <<>> /\ rj.missing_required_vendor_policy # "warn_only"
           THEN run_steps(policy \o fail_run_steps("FETCH_INPUTS", None), "NonRetryableError", "done")
           ELSE IF rj.schema_version # 1
           THEN run_steps(policy \o manifest \o fail_run_steps("FETCH_INPUTS", None),
                          "NonRetryableError", "done")
           ELSE run_steps(policy \o manifest, None, "normalize")
    /\ UNCHANGED <<worker_vars, tenant_vars, uploads, call, thread_vars>>

\* stage NORMALIZE, the engine and its exception handlers, stage MERGE_PRICE
steps_normalize ==
    /\ rj.pc = "normalize"
    /\ LET engine == <<Step("RUNNING", "NORMALIZE", 0), Step("run_inventory_sync", "engine", 0)>>
       IN  IF rj.engine_fault # None
           THEN run_steps(engine \o fail_run_steps("NORMALIZE", None), "NonRetryableError", "done")
           ELSE run_steps(engine \o <<Step("RUNNING", "MERGE_PRICE", 0)>>, None, "normalized_csvs")
    /\ UNCHANGED <<worker_vars, tenant_vars, uploads, call, thread_vars>>

\* normalized.csv is written for the vendors of the engine result that have input
\* but no record
normalized_vendors_without_records(vendors) ==
    {i \in DOMAIN vendors : vendors[i].latest /\ vendors[i].records = 0}

\* normalized_by_vendor has every vendor of the config; those not in
\* vendor_inputs are skipped
normalized_vendors(vendors) == {i \in DOMAIN vendors : vendors[i].latest}

\* the entries of reports/errors.json, as run_job has them after the engine
error_entries(vendors) ==
    error_entries_of(missing_vendor_entries(vendors), run_inventory_sync(vendors).errors)

\* the normalized files, then reports/errors.json when there is any entry
steps_normalized_csvs ==
    /\ rj.pc = "normalized_csvs"
    /\ LET F[i \in 0..Len(rj.vendors)] ==
               IF i = 0 THEN <<>>
               ELSE F[i - 1] \o (IF i \in normalized_vendors(rj.vendors)
                                 THEN <<Step("upload", "normalized", i),
                                        Step("artifact", "normalized", i)>>
                                 ELSE <<>>)
       IN  run_steps(F[Len(rj.vendors)]
                     \o (IF error_entries(rj.vendors) # <<>>
                         THEN <<Step("upload", "errors", 0), Step("artifact", "errors", 0)>>
                         ELSE <<>>),
                     None, "error_policy_gate")
    /\ UNCHANGED <<worker_vars, tenant_vars, uploads, call, thread_vars>>

\* the error-policy gate
steps_error_policy_gate ==
    /\ rj.pc = "error_policy_gate"
    /\ LET engine_result == run_inventory_sync(rj.vendors)
           outcome == error_policy_gate(Len(engine_result.errors), engine_result.total_rows,
                                        missing_vendor_entries(rj.vendors),
                                        rj.max_invalid_rows, rj.max_invalid_row_pct)
           error_key == IF error_entries(rj.vendors) # <<>> THEN "errors.json" ELSE None
           gate == <<Step("evaluate", "error_policy_gate", 0)>>
       IN  IF outcome \in {"no_rows_parsed", "validation_errors"}
           THEN run_steps(gate \o fail_run_steps("MERGE_PRICE", error_key), "NonRetryableError", "done")
           ELSE IF outcome = "ZeroDivisionError"
           THEN run_steps(gate, outcome, "done")
           ELSE run_steps(gate, None, "write_outputs")
    /\ UNCHANGED <<worker_vars, tenant_vars, uploads, call, thread_vars>>

\* stage WRITE_OUTPUTS, merged_inventory.csv, run_summary.json, SUCCEEDED / COMPLETE
steps_write_outputs ==
    /\ rj.pc = "write_outputs"
    /\ run_steps(<<Step("RUNNING", "WRITE_OUTPUTS", 0),
                   Step("upload", "merged_inventory", 0), Step("artifact", "merged_inventory", 0),
                   Step("upload", "run_summary", 0), Step("artifact", "run_summary", 0),
                   Step("SUCCEEDED", "COMPLETE", 0)>>,
                 None, "done")
    /\ UNCHANGED <<worker_vars, tenant_vars, uploads, call, thread_vars>>

\* the job's tenant item (present or not), its schema_version, and the inputs
StepInputs ==
    [in : {in \in RunJobInputs : in.max_invalid_row_pct = 100},
     tenant_record : BOOLEAN,
     schema_version : {1, 2}]

InitSteps ==
    /\ InitWorker
    /\ runs_has_probe = FALSE
    /\ InitTenants
    /\ InitThreads
    /\ \E s \in StepInputs :
          rj = [pc |-> "run_job",
                tenant_record |-> s.tenant_record,
                schema_version |-> s.schema_version,
                vendors |-> s.in.vendors,
                missing_required_vendor_policy |-> s.in.missing_required_vendor_policy,
                max_invalid_rows |-> s.in.max_invalid_rows,
                max_invalid_row_pct |-> s.in.max_invalid_row_pct,
                engine_fault |-> s.in.engine_fault,
                steps |-> <<>>, raised |-> None]
    /\ uploads = {}
    /\ call = NoCall

NextSteps ==
    \/ steps_config_snapshot
    \/ steps_fetch_inputs
    \/ steps_missing_vendor_policy
    \/ steps_normalize
    \/ steps_normalized_csvs
    \/ steps_error_policy_gate
    \/ steps_write_outputs

SpecSteps == InitSteps /\ [][NextSteps]_vars

(* ------------------- artifact keys of concurrent jobs ------------------- *)
\* keys are sequences of symbols: the characters of the ids, "/" and the
\* literal path segments of the key templates
Strings(chars, max_len) == UNION {[1..n -> chars] : n \in 1..max_len}

\* run_id = str(uuid.uuid4()): hexadecimal digits and "-", never "/"
RunIdStrings == Strings({"a", "b"}, MaxRunIdLen)

\* tenant_id and vendor_id come from the tenant config: any characters
IdStrings == Strings({"a", "/"}, MaxIdLen)

\* the key of a vendor's latest inbound object
SourceKeys == Strings({"f", "/"}, MaxSourceKeyLen)

Jobs == [run_id : RunIdStrings, tenant_id : IdStrings]

startswith(key, prefix) ==
    Len(key) >= Len(prefix) /\ SubSeq(key, 1, Len(prefix)) = prefix

\* f"{run_id}/tenants/{tenant_id}"
run_prefix(run_id, tenant_id) == run_id \o <<"/", "tenants", "/">> \o tenant_id

\* _ensure_run_prefix raises ValueError unless the key starts with f"{run_id}/"
ensure_run_prefix(run_id, key) == startswith(key, run_id \o <<"/">>)

\* PurePosixPath(source_key).name: the last component, trailing "/" ignored
RECURSIVE posix_name(_)
posix_name(source_key) ==
    IF source_key = <<>> THEN <<>>
    ELSE IF source_key[Len(source_key)] = "/" THEN posix_name(SubSeq(source_key, 1, Len(source_key) - 1))
    ELSE LET slashes == {i \in DOMAIN source_key : source_key[i] = "/"}
             last == IF slashes = {} THEN 0 ELSE CHOOSE i \in slashes : \A j \in slashes : j <= i
         IN  SubSeq(source_key, last + 1, Len(source_key))

inbound_copy_key(run_id, tenant_id, vendor_id, source_key) ==
    LET filename == IF posix_name(source_key) = <<>> THEN <<"inbound">> ELSE posix_name(source_key)
    IN  run_prefix(run_id, tenant_id) \o <<"/", "inbound", "/">> \o vendor_id \o <<"/">> \o filename

\* f"{reports_prefix}/{name}" with reports_prefix = f"{run_prefix}/reports"
report_key(run_id, tenant_id, name) ==
    run_prefix(run_id, tenant_id) \o <<"/", "reports", "/", name>>

normalized_key(run_id, tenant_id, vendor_id) ==
    run_prefix(run_id, tenant_id) \o <<"/", "normalized", "/">> \o vendor_id \o <<"/", "normalized.csv">>

output_key(run_id, tenant_id) ==
    run_prefix(run_id, tenant_id) \o <<"/", "outputs", "/", "merged_inventory.csv">>

\* the reports of run_job and the artifact each is recorded as
Reports ==
    {<<"config_snapshot.json", "config_snapshot">>, <<"input_manifest.json", "input_manifest">>,
     <<"errors.json", "errors">>, <<"run_summary.json", "run_summary">>}

\* _ensure_run_prefix, the upload, then artifacts[artifact] = key
upload(job, key, artifact) ==
    /\ Cardinality(uploads) < MaxUploads
    /\ ensure_run_prefix(job.run_id, key)
    /\ uploads' = uploads \cup {[run_id |-> job.run_id, key |-> key, artifact |-> artifact]}
    /\ UNCHANGED <<worker_vars, tenant_vars, rj, call, thread_vars>>

upload_report(job, report) ==
    upload(job, report_key(job.run_id, job.tenant_id, report[1]), <<report[2]>>)

\* a copy of the inbound object stored under the key it was read from
upload_inbound_copy_at_source_key(job, vendor_id, source_key) ==
    /\ Cardinality(uploads) < MaxUploads
    /\ uploads' = uploads \cup {[run_id |-> job.run_id, key |-> source_key,
                                 artifact |-> <<"inbound_">> \o vendor_id]}
    /\ UNCHANGED <<worker_vars, tenant_vars, rj, call, thread_vars>>

upload_inbound_copy(job, vendor_id, source_key) ==
    upload(job, inbound_copy_key(job.run_id, job.tenant_id, vendor_id, source_key),
           <<"inbound_">> \o vendor_id)

upload_normalized(job, vendor_id) ==
    upload(job, normalized_key(job.run_id, job.tenant_id, vendor_id), <<"normalized_">> \o vendor_id)

upload_output(job) ==
    upload(job, output_key(job.run_id, job.tenant_id), <<"merged_inventory">>)

InitKeys ==
    /\ InitWorker
    /\ runs_has_probe = FALSE
    /\ InitTenants
    /\ InitThreads
    /\ rj = NoRunJob
    /\ uploads = {}
    /\ call = NoCall

NextKeys ==
    \/ \E job \in Jobs, report \in Reports : upload_report(job, report)
    \/ \E job \in Jobs, vendor_id \in IdStrings, source_key \in SourceKeys :
          upload_inbound_copy(job, vendor_id, source_key)
    \/ \E job \in Jobs, vendor_id \in IdStrings : upload_normalized(job, vendor_id)
    \/ \E job \in Jobs : upload_output(job)

SpecKeys == InitKeys /\ [][NextKeys]_vars

(* ----------------------- engine: best-offer merge ------------------------ *)
\* Optional[T]: <<>> is Python's None, <<v>> a value
Optional(S) == {<<>>} \cup {<<v>> : v \in S}

\* sku and vendor_id are numbered in ascending string order; cost in whole units
InventoryRecords ==
    [sku : 1..MaxSkus, vendor_id : 1..MaxVendorIds, quantity_available : 0..1,
     cost : Optional(0..MaxCost), lead_time_days : Optional({1})]

BestOfferConfigs ==
    [include_shipping_handling : BOOLEAN, shipping_handling_flat : {MaxShippingHandling},
     fallback_lead_time_days : {7}]

landed_cost(item, config) ==
    IF item.cost = <<>> THEN 0
    ELSE IF config.include_shipping_handling THEN item.cost[1] + config.shipping_handling_flat
    ELSE item.cost[1]

\* tuple comparison of two-element keys
key_less(a, b) == a[1] < b[1] \/ (a[1] = b[1] /\ a[2] < b[2])

\* sorted(items, key=...): stable, an item goes behind every item whose key is
\* not greater; keyed is the sequence of [key, item]
RECURSIVE sort_insert(_, _)
sort_insert(keyed, p) ==
    IF keyed = <<>> THEN <<p>>
    ELSE IF key_less(p.key, keyed[Len(keyed)].key)
         THEN Append(sort_insert(SubSeq(keyed, 1, Len(keyed) - 1), p), keyed[Len(keyed)])
         ELSE Append(keyed, p)

RECURSIVE sorted(_)
sorted(keyed) ==
    IF keyed = <<>> THEN <<>>
    ELSE sort_insert(sorted(SubSeq(keyed, 1, Len(keyed) - 1)), keyed[Len(keyed)])

\* a grouping that opens a group for every record
grouped_skus_per_record(records) == [i \in DOMAIN records |-> records[i].sku]

\* the keys of the dict grouped, in insertion order
RECURSIVE grouped_skus(_)
grouped_skus(records) ==
    IF records = <<>> THEN <<>>
    ELSE LET before == grouped_skus(SubSeq(records, 1, Len(records) - 1))
             sku == records[Len(records)].sku
         IN  IF \E i \in DOMAIN before : before[i] = sku THEN before ELSE Append(before, sku)

\* grouped[sku]
RECURSIVE sku_records(_, _)
sku_records(records, sku) ==
    IF records = <<>> THEN <<>>
    ELSE LET before == sku_records(SubSeq(records, 1, Len(records) - 1), sku)
         IN  IF records[Len(records)].sku = sku THEN Append(before, records[Len(records)]) ELSE before

\* a sort key that ignores the stock
merge_sort_key_cost_only(item, config) == <<0, landed_cost(item, config)>>

merge_sort_key(item, config) ==
    <<-(IF item.quantity_available > 0 THEN 1 ELSE 0), landed_cost(item, config)>>

\* the selection of one group: the first record of the sorted group, its
\* lead_time_days filled when null
merge_select(candidates, config) ==
    LET sorted_records == sorted([i \in DOMAIN candidates |->
                                    [key |-> merge_sort_key(candidates[i], config), item |-> candidates[i]]])
        selected == sorted_records[1].item
    IN  IF selected.lead_time_days = <<>>
        THEN [selected EXCEPT !.lead_time_days = <<config.fallback_lead_time_days>>]
        ELSE selected

\* a merge that emits the groups in the reverse of their insertion order
merge_best_offer_groups_reversed(records, config) ==
    LET skus == grouped_skus(records)
    IN  [i \in DOMAIN skus |-> merge_select(sku_records(records, skus[Len(skus) + 1 - i]), config)]

merge_best_offer(records, config) ==
    LET skus == grouped_skus(records)
    IN  [i \in DOMAIN skus |-> merge_select(sku_records(records, skus[i]), config)]

MergeInputs == UNION {[1..n -> InventoryRecords] : n \in 0..MaxMergeRecords}

call_merge_best_offer ==
    /\ call.fn = "merge_best_offer"
    /\ ~call.returned
    /\ call' = [call EXCEPT !.returned = TRUE,
                            !.result = merge_best_offer(call.records, call.config)]
    /\ UNCHANGED <<worker_vars, tenant_vars, rj, uploads, thread_vars>>

InitMerge ==
    /\ InitWorker
    /\ runs_has_probe = FALSE
    /\ InitTenants
    /\ InitThreads
    /\ rj = NoRunJob
    /\ uploads = {}
    /\ \E records \in MergeInputs, config \in BestOfferConfigs :
          call = [fn |-> "merge_best_offer", records |-> records, config |-> config,
                  returned |-> FALSE, result |-> <<>>]

NextMerge == call_merge_best_offer

SpecMerge == InitMerge /\ [][NextMerge]_vars

(* --------------------------- engine: pricing ---------------------------- *)
\* Decimal amounts are whole numbers of 1/10000: a cost in cents times a margin
\* in percent is exact
Cents(c) == c * 100

Abs(x) == IF x < 0 THEN -x ELSE x

PricedRecords ==
    [sku : {1},
     cost : Optional({Cents(0), Cents(10), Cents(25)}),
     map_price : Optional({Cents(35)}),
     price : {Cents(0), Cents(40)}]

\* base_margin_pct is in percent: 50 is Decimal("0.5")
PricingRules ==
    [base_margin_pct : {0, 50},
     min_price : {Cents(0), Cents(24), Cents(25)},
     shipping_handling_flat : {Cents(0), Cents(5)},
     map_policy : [enforce : BOOLEAN, map_floor_behavior : {"max(price, map_price)", "none"}],
     rounding : [increment : {Cents(0), Cents(10)}]]

\* (value / increment).quantize(Decimal("1"), rounding=ROUND_HALF_UP) * increment:
\* the nearest multiple, a tie goes away from zero
round_price(value, rounding) ==
    IF rounding.increment <= 0 THEN value
    ELSE LET increments == (2 * Abs(value) + rounding.increment) \div (2 * rounding.increment)
         IN  (IF value < 0 THEN -increments ELSE increments) * rounding.increment

Max(a, b) == IF a >= b THEN a ELSE b

\* a price whose MAP floor is applied before the rounding
compute_price_map_before_rounding(cost, rules, map_price) ==
    LET landed == cost + rules.shipping_handling_flat
        margin == (landed * (100 + rules.base_margin_pct)) \div 100
        candidate == IF margin < rules.min_price THEN rules.min_price ELSE margin
        floored == IF rules.map_policy.enforce /\ map_price # <<>>
                      /\ rules.map_policy.map_floor_behavior = "max(price, map_price)"
                   THEN Max(candidate, map_price[1])
                   ELSE candidate
    IN  round_price(floored, rules.rounding)

compute_price(cost, rules, map_price) ==
    LET landed == cost + rules.shipping_handling_flat
        margin == (landed * (100 + rules.base_margin_pct)) \div 100
        candidate == IF margin < rules.min_price THEN rules.min_price ELSE margin
        rounded == round_price(candidate, rules.rounding)
    IN  IF rules.map_policy.enforce /\ map_price # <<>>
           /\ rules.map_policy.map_floor_behavior = "max(price, map_price)"
        THEN Max(rounded, map_price[1])
        ELSE rounded

\* a pricing that takes the record's price as its cost basis
apply_pricing_on_price(records, rules) ==
    [i \in DOMAIN records |->
        [records[i] EXCEPT !.price = compute_price(records[i].price, rules, records[i].map_price)]]

apply_pricing(records, rules) ==
    [i \in DOMAIN records |->
        IF records[i].cost = <<>> THEN records[i]
        ELSE [records[i] EXCEPT !.price = compute_price(records[i].cost[1], rules, records[i].map_price)]]

PricingInputs == UNION {[1..n -> PricedRecords] : n \in 0..MaxPricedRecords}

call_apply_pricing ==
    /\ call.fn = "apply_pricing"
    /\ ~call.returned
    /\ call' = [call EXCEPT !.returned = TRUE,
                            !.result = apply_pricing(call.records, call.rules)]
    /\ UNCHANGED <<worker_vars, tenant_vars, rj, uploads, thread_vars>>

\* apply_pricing called on the result of the first call
call_apply_pricing_again ==
    /\ call.fn = "apply_pricing"
    /\ call.returned
    /\ ~call.repriced
    /\ call' = [call EXCEPT !.repriced = TRUE,
                            !.again = apply_pricing(call.result, call.rules)]
    /\ UNCHANGED <<worker_vars, tenant_vars, rj, uploads, thread_vars>>

InitPricing ==
    /\ InitWorker
    /\ runs_has_probe = FALSE
    /\ InitTenants
    /\ InitThreads
    /\ rj = NoRunJob
    /\ uploads = {}
    /\ \E records \in PricingInputs, rules \in PricingRules :
          call = [fn |-> "apply_pricing", records |-> records, rules |-> rules,
                  returned |-> FALSE, result |-> <<>>, repriced |-> FALSE, again |-> <<>>]

NextPricing ==
    \/ call_apply_pricing
    \/ call_apply_pricing_again

SpecPricing == InitPricing /\ [][NextPricing]_vars

(* ------------------------ canonical CSV encoder ------------------------- *)
\* a value of a row: None, a Decimal (n thousandths), a str that parses as a
\* Decimal (n thousandths), or another str (number n; str 0 is the empty string)
Value(kind, n) == [kind |-> kind, n |-> n]

\* the str of a Decimal quantized to two places: n hundredths
Str2dp(n) == Value("str2dp", n)

DecimalValues ==
    {Value("None", 0), Value("str", 1), Value("numeric_str", 5)}
    \cup {Value("Decimal", n) : n \in {5, 15, 25, -25}}

\* sku and vendor_id are numbered in the order of their strings
CsvRows == [sku : 1..MaxSkus, vendor_id : 1..MaxVendorIds, price : DecimalValues]

FieldLists == {<<"sku", "vendor_id", "price">>, <<"sku", "price">>}

\* Decimal.quantize(Decimal("0.01")) under the default context, ROUND_HALF_EVEN:
\* thousandths to hundredths, a tie goes to the even hundredth
quantize(n) ==
    LET q == Abs(n) \div 10
        r == Abs(n) % 10
        up == r > 5 \/ (r = 5 /\ q % 2 = 1)
        cents == IF up THEN q + 1 ELSE q
    IN  IF n < 0 THEN -cents ELSE cents

\* _format_decimal
format_decimal(value) ==
    IF value.kind = "None" THEN value
    ELSE IF value.kind \in {"Decimal", "numeric_str"} THEN Str2dp(quantize(value.n))
    ELSE value

\* _normalize_row: the DECIMAL_FIELDS of the row are formatted
normalize_row(row) == [row EXCEPT !.price = format_decimal(row.price)]

\* a sort key that never has the vendor_id
csv_sort_key_sku_only(row, include_vendor_id) == <<row.sku, 0>>

\* (str(row.get("sku", "")), str(row.get("vendor_id", "")) if include_vendor_id else "")
csv_sort_key(row, include_vendor_id) ==
    <<row.sku, IF include_vendor_id THEN row.vendor_id ELSE 0>>

\* csv.DictWriter.writerow: the row's values in fieldnames order, None as ""
csv_line(row, fieldnames) ==
    [i \in DOMAIN fieldnames |->
        IF fieldnames[i] = "price"
        THEN (IF row.price.kind = "None" THEN Value("str", 0) ELSE row.price)
        ELSE Value(fieldnames[i], row[fieldnames[i]])]

HasField(fieldnames, field) == \E i \in DOMAIN fieldnames : fieldnames[i] = field

\* the lines of the encoded file, the header first; <<"ValueError">> when
\* extrasaction is "raise" and a row has a key outside fieldnames
write_csv_bytes(rows, fieldnames, extrasaction) ==
    LET normalized_rows == [i \in DOMAIN rows |-> normalize_row(rows[i])]
        include_vendor_id == HasField(fieldnames, "vendor_id")
        sorted_rows == sorted([i \in DOMAIN rows |->
                                 [key |-> csv_sort_key(normalized_rows[i], include_vendor_id),
                                  item |-> normalized_rows[i]]])
        \* writeheader: the field names; a header cell has n = 0
        header == [i \in DOMAIN fieldnames |-> Value(fieldnames[i], 0)]
    IN  IF rows # <<>> /\ extrasaction = "raise" /\ ~include_vendor_id
        THEN <<<<Value("ValueError", 0)>>>>
        ELSE <<header>> \o [i \in DOMAIN sorted_rows |-> csv_line(sorted_rows[i].item, fieldnames)]

CsvInputs == UNION {[1..n -> CsvRows] : n \in 0..MaxCsvRows}

call_write_csv_bytes ==
    /\ call.fn = "write_csv_bytes"
    /\ ~call.returned
    /\ call' = [call EXCEPT !.returned = TRUE,
                            !.result = write_csv_bytes(call.rows, call.fieldnames, call.extrasaction)]
    /\ UNCHANGED <<worker_vars, tenant_vars, rj, uploads, thread_vars>>

InitCsv ==
    /\ InitWorker
    /\ runs_has_probe = FALSE
    /\ InitTenants
    /\ InitThreads
    /\ rj = NoRunJob
    /\ uploads = {}
    /\ \E rows \in CsvInputs, fieldnames \in FieldLists, extrasaction \in {"raise", "ignore"} :
          call = [fn |-> "write_csv_bytes", rows |-> rows, fieldnames |-> fieldnames,
                  extrasaction |-> extrasaction, returned |-> FALSE, result |-> <<>>]

NextCsv == call_write_csv_bytes

SpecCsv == InitCsv /\ [][NextCsv]_vars

(* ------------------------ object store: list_latest --------------------- *)
\* keys are numbered in the order of their strings (UTF-8 binary order)
ObjectKeys == 1..MaxObjectKeys

\* the bucket: per key, no object (<<>>) or an object, under the prefix of the
\* call or not, with its LastModified
Buckets ==
    [ObjectKeys -> Optional([under_prefix : BOOLEAN, last_modified : 1..MaxLastModified])]

\* list_objects_v2(Bucket, Prefix)["Contents"]: the objects under the prefix,
\* in ascending key order
RECURSIVE list_objects_v2(_, _)
list_objects_v2(bucket, up_to) ==
    IF up_to = 0 THEN <<>>
    ELSE LET before == list_objects_v2(bucket, up_to - 1)
         IN  IF bucket[up_to] # <<>> /\ bucket[up_to][1].under_prefix
             THEN Append(before, [Key |-> up_to, LastModified |-> bucket[up_to][1].last_modified])
             ELSE before

\* max(contents, key=...): the first item whose key is the largest
RECURSIVE max_by_last_modified(_)
max_by_last_modified(contents) ==
    IF Len(contents) = 1 THEN contents[1]
    ELSE LET before == max_by_last_modified(SubSeq(contents, 1, Len(contents) - 1))
             item == contents[Len(contents)]
         IN  IF item.LastModified > before.LastModified THEN item ELSE before

\* S3Adapter.list_latest: None (<<>>) or the location of the latest object
list_latest(bucket) ==
    LET contents == list_objects_v2(bucket, MaxObjectKeys)
    IN  IF contents = <<>> THEN <<>>
        ELSE LET latest == max_by_last_modified(contents)
             IN  <<[key |-> latest.Key, last_modified |-> latest.LastModified]>>

call_list_latest ==
    /\ call.fn = "list_latest"
    /\ ~call.returned
    /\ call' = [call EXCEPT !.returned = TRUE, !.result = list_latest(call.bucket)]
    /\ UNCHANGED <<worker_vars, tenant_vars, rj, uploads, thread_vars>>

InitListLatest ==
    /\ InitWorker
    /\ runs_has_probe = FALSE
    /\ InitTenants
    /\ InitThreads
    /\ rj = NoRunJob
    /\ uploads = {}
    /\ \E bucket \in Buckets :
          call = [fn |-> "list_latest", bucket |-> bucket, returned |-> FALSE, result |-> <<>>]

NextListLatest == call_list_latest

SpecListLatest == InitListLatest /\ [][NextListLatest]_vars

(* --------------------------- Worker.run_forever ------------------------- *)
\* what the _process_message execution of a received message ends with: it
\* returns after run_succeeded, NonRetryableError and RetryableError; a
\* ValidationError of the job body and any other exception of run_job leave it
Outcomes == {"run_succeeded", "NonRetryableError", "RetryableError", "ValidationError", "Exception"}

Futures == 1..MaxFutures

\* WORKER_CONCURRENCY as the environment has it
worker_concurrency(env) == Max(1, env)

\* future.done()
done(f) == loop.future[f].state \in {"returned", "raised"}

\* a loop that waits only when more futures than worker_concurrency are pending
executor_is_overfull(futures, concurrency) == Cardinality(futures) > concurrency

\* len(futures) >= worker_concurrency
executor_is_full(futures, concurrency) == Cardinality(futures) >= concurrency

\* the completed futures are collected: future.result() returns, or raises the
\* exception that left _process_message, which then leaves run_forever
collect_completed ==
    /\ loop.pc = "collect"
    /\ LET completed == {f \in loop.futures : done(f)}
           futures == loop.futures \ completed
       IN  loop' = IF \E f \in completed : loop.future[f].state = "raised"
                   THEN [loop EXCEPT !.pc = "raised"]
                   ELSE [loop EXCEPT !.futures = futures,
                                     !.pc = IF executor_is_full(futures, loop.worker_concurrency)
                                            THEN "wait" ELSE "receive"]
    /\ UNCHANGED <<worker_vars, tenant_vars, rj, uploads, call, heartbeat>>

\* done, futures = wait(futures, return_when=FIRST_COMPLETED), then
\* future.result() for the done ones
wait_first_completed ==
    /\ loop.pc = "wait"
    /\ \E f \in loop.futures : done(f)
    /\ LET completed == {f \in loop.futures : done(f)}
       IN  loop' = IF \E f \in completed : loop.future[f].state = "raised"
                   THEN [loop EXCEPT !.futures = @ \ completed, !.pc = "raised"]
                   ELSE [loop EXCEPT !.futures = @ \ completed, !.pc = "receive"]
    /\ UNCHANGED <<worker_vars, tenant_vars, rj, uploads, call, heartbeat>>

\* queue.receive() raises (logged) or returns no message: continue
receive_nothing ==
    /\ loop.pc = "receive"
    /\ loop' = [loop EXCEPT !.pc = "collect"]
    /\ UNCHANGED <<worker_vars, tenant_vars, rj, uploads, call, heartbeat>>

\* a message is received and executor.submit starts its _process_message
submit(outcome) ==
    /\ loop.pc = "receive"
    /\ loop.submitted < MaxFutures
    /\ LET future == loop.submitted + 1
       IN  loop' = [loop EXCEPT !.pc = "collect",
                                !.submitted = future,
                                !.futures = @ \cup {future},
                                !.future[future] = [state |-> "running", outcome |-> outcome]]
    /\ UNCHANGED <<worker_vars, tenant_vars, rj, uploads, call, heartbeat>>

\* the _process_message execution of a future ends
process_message_ends(f) ==
    /\ loop.pc # "none"
    /\ loop.future[f].state = "running"
    /\ loop' = [loop EXCEPT
                  !.future[f].state =
                      IF loop.future[f].outcome \in {"run_succeeded", "NonRetryableError", "RetryableError"}
                      THEN "returned" ELSE "raised"]
    /\ UNCHANGED <<worker_vars, tenant_vars, rj, uploads, call, heartbeat>>

InitRunForever ==
    /\ InitWorker
    /\ runs_has_probe = FALSE
    /\ InitTenants
    /\ rj = NoRunJob
    /\ uploads = {}
    /\ call = NoCall
    /\ heartbeat = NoHeartbeat
    /\ \E env \in 0..MaxWorkerConcurrency :
          loop = [pc |-> "collect",
                  worker_concurrency |-> worker_concurrency(env),
                  futures |-> {},
                  future |-> [f \in Futures |-> [state |-> "unsubmitted", outcome |-> None]],
                  submitted |-> 0]

NextRunForever ==
    \/ collect_completed
    \/ wait_first_completed
    \/ receive_nothing
    \/ \E outcome \in Outcomes : submit(outcome)
    \/ \E f \in Futures : process_message_ends(f)

SpecRunForever == InitRunForever /\ [][NextRunForever]_vars

(* --------------------- the visibility heartbeat thread ------------------ *)
\* one _process_message execution from _start_visibility_heartbeat on, and the
\* thread it starts. heartbeat.pc is the position of the execution, thread the
\* position of the thread: "none" (no thread), "waiting" (in stop_event.wait),
\* "calling" (the wait timed out, change_visibility is the next statement),
\* "exited". calls counts the change_visibility calls, late_calls those issued
\* after the message was deleted or after _process_message returned
RunJobOutcomes == {"returned", "NonRetryableError", "RetryableError", "Exception"}

\* WORKER_VISIBILITY_TIMEOUT_SECONDS and WORKER_VISIBILITY_HEARTBEAT_SECONDS
HeartbeatSettings ==
    [visibility_timeout_seconds : {0, visibility_timeout_seconds},
     visibility_heartbeat_seconds : {0, visibility_heartbeat_seconds}]

\* the call is late when the message is deleted or the execution has returned
change_visibility_called(late) ==
    [heartbeat EXCEPT !.calls = @ + 1, !.late_calls = IF late THEN @ + 1 ELSE @]

\* _start_visibility_heartbeat: no heartbeat without a timeout; else one call
\* (an error is logged), and the thread unless the interval is not positive
start_heartbeat_thread ==
    /\ heartbeat.pc = "start_visibility_heartbeat"
    /\ heartbeat' =
          IF heartbeat.visibility_timeout_seconds <= 0
          THEN [heartbeat EXCEPT !.pc = "run_job"]
          ELSE [change_visibility_called(FALSE) EXCEPT
                  !.pc = "run_job",
                  !.thread = IF heartbeat.visibility_heartbeat_seconds <= 0
                             THEN "none" ELSE "waiting"]
    /\ UNCHANGED <<worker_vars, tenant_vars, rj, uploads, call, loop>>

\* run_job returns or raises: the delete of the else clause and of the
\* NonRetryableError handler is next, or the finally clause
run_job_ends ==
    /\ heartbeat.pc = "run_job"
    /\ heartbeat' = [heartbeat EXCEPT
                        !.pc = IF heartbeat.outcome \in {"returned", "NonRetryableError"}
                               THEN "delete" ELSE "finally",
                        !.event = CASE heartbeat.outcome = "returned" -> "run_succeeded"
                                    [] heartbeat.outcome = "NonRetryableError" -> "run_failed"
                                    [] heartbeat.outcome = "RetryableError" -> "run_retryable_error"
                                    [] OTHER -> "exception"]
    /\ UNCHANGED <<worker_vars, tenant_vars, rj, uploads, call, loop>>

\* self.queue.delete(message.receipt_handle); an error is logged
delete_message ==
    /\ heartbeat.pc = "delete"
    /\ \E ok \in BOOLEAN :
          heartbeat' = [heartbeat EXCEPT !.pc = "finally",
                                         !.message = IF ok THEN "deleted" ELSE @]
    /\ UNCHANGED <<worker_vars, tenant_vars, rj, uploads, call, loop>>

\* finally: stop_event.set() when there is a heartbeat, thread.join is next
stop_heartbeat ==
    /\ heartbeat.pc = "finally"
    /\ heartbeat' = IF heartbeat.thread = "none"
                    THEN [heartbeat EXCEPT !.pc = "returned"]
                    ELSE [heartbeat EXCEPT !.pc = "join", !.stop_event = TRUE]
    /\ UNCHANGED <<worker_vars, tenant_vars, rj, uploads, call, loop>>

\* thread.join(timeout=2) returns: the thread has exited, or 2 seconds passed
join_returns ==
    /\ heartbeat.pc = "join"
    /\ heartbeat' = [heartbeat EXCEPT !.pc = "returned"]
    /\ UNCHANGED <<worker_vars, tenant_vars, rj, uploads, call, loop>>

\* stop_event.wait(visibility_heartbeat_seconds) returns False: the interval
\* passed and the event is not set
wait_times_out ==
    /\ heartbeat.thread = "waiting"
    /\ ~heartbeat.stop_event
    /\ heartbeat.calls < MaxHeartbeats
    /\ heartbeat' = [heartbeat EXCEPT !.thread = "calling"]
    /\ UNCHANGED <<worker_vars, tenant_vars, rj, uploads, call, loop>>

\* stop_event.wait returns True: the loop of _heartbeat ends
wait_is_stopped ==
    /\ heartbeat.thread = "waiting"
    /\ heartbeat.stop_event
    /\ heartbeat' = [heartbeat EXCEPT !.thread = "exited"]
    /\ UNCHANGED <<worker_vars, tenant_vars, rj, uploads, call, loop>>

\* _heartbeat: self.queue.change_visibility(...); an error is logged
heartbeat_change_visibility ==
    /\ heartbeat.thread = "calling"
    /\ heartbeat' = [change_visibility_called(heartbeat.message = "deleted" \/ heartbeat.pc = "returned")
                        EXCEPT !.thread = "waiting"]
    /\ UNCHANGED <<worker_vars, tenant_vars, rj, uploads, call, loop>>

InitHeartbeat ==
    /\ InitWorker
    /\ runs_has_probe = FALSE
    /\ InitTenants
    /\ rj = NoRunJob
    /\ uploads = {}
    /\ call = NoCall
    /\ loop = NoLoop
    /\ \E settings \in HeartbeatSettings, outcome \in RunJobOutcomes :
          heartbeat = [pc |-> "start_visibility_heartbeat",
                       visibility_timeout_seconds |-> settings.visibility_timeout_seconds,
                       visibility_heartbeat_seconds |-> settings.visibility_heartbeat_seconds,
                       outcome |-> outcome, event |-> None,
                       thread |-> "none", stop_event |-> FALSE,
                       message |-> "inflight", calls |-> 0, late_calls |-> 0]

NextHeartbeat ==
    \/ start_heartbeat_thread
    \/ run_job_ends
    \/ delete_message
    \/ stop_heartbeat
    \/ join_returns
    \/ wait_times_out
    \/ wait_is_stopped
    \/ heartbeat_change_visibility

SpecHeartbeat == InitHeartbeat /\ [][NextHeartbeat]_vars

(* ============================== claims ================================= *)
Terminal(r) == runs[r].status \in {"SUCCEEDED", "FAILED"}

\* w leaves the entry of _process_message by one of its branches (not by dying)
Decides(w) == wk[w].pc = "process_message" /\ wk'[w].pc \in {"done", "run_job"}

\* the positions at which run_job has been entered
RunJobPositions == {"fetch_inputs", "normalize", "merge_price", "write_outputs", "NonRetryableError"}

\* w's execution of run_job ends and _process_message returns
RunJobEnds(w) == wk[w].pc \in RunJobPositions /\ wk'[w].pc = "done"

\* the last execution for run r ended in the RetryableError handler
RetryPending(r) ==
    \E v \in Workers : wk[v].pc = "done" /\ wk[v].run_id = r /\ wk[v].event = "run_retryable_error"

\* the last execution for run r backed off on the tenant lock
Deferred(r) ==
    \E v \in Workers : wk[v].pc = "done" /\ wk[v].run_id = r /\ wk[v].event = "tenant_run_in_progress"

OtherRunning(r) ==
    \E o \in RunIds : o # r /\ runs[o].tenant_id = runs[r].tenant_id /\ runs[o].status = "RUNNING"

\* C1: with a run store that implements the tenant-lock probe, no two RunRecords
\* of one tenant are RUNNING at the same time
C1_TenantMutualExclusion ==
    runs_has_probe =>
        \A r1, r2 \in RunIds :
            (r1 # r2 /\ runs[r1].tenant_id = runs[r2].tenant_id /\ runs[r1].status = "RUNNING")
                => runs[r2].status # "RUNNING"

\* C2: once a run is SUCCEEDED or FAILED, no step changes its status,
\* error_code or failed_stage
C2_TerminalIsFinal ==
    [][\A r \in RunIds :
            Terminal(r) => /\ runs'[r].status = runs[r].status
                           /\ runs'[r].error_code = runs[r].error_code
                           /\ runs'[r].failed_stage = runs[r].failed_stage]_vars

\* C3: a run left RUNNING by a worker that died keeps its message in the queue,
\* so that redelivery (and at the latest poison handling) can end it
C3_DeadWorkerRunRecoverable ==
    \A w \in Workers :
        (wk[w].pc = "dead" /\ runs[wk[w].run_id].status = "RUNNING")
            => queue[wk[w].run_id].state # "deleted"

\* C4: a run_job that ends with RetryableError leaves the run RUNNING and the
\* message undeleted, and the redelivery of that message enters run_job again
C4_RetryIsReexecuted ==
    [][\A w \in Workers :
            /\ (RunJobEnds(w) /\ wk'[w].event = "run_retryable_error")
                   => (runs'[wk[w].run_id].status = "RUNNING" /\ queue' = queue)
            /\ (Decides(w) /\ RetryPending(wk[w].run_id)) => wk'[w].pc = "run_job"]_vars

\* C5: when an executed run_job ends, queue.delete is called for the message if
\* run_job returned or raised NonRetryableError, and the queue is not touched
\* if it raised RetryableError (or anything else)
C5_DeleteUnlessRetryable ==
    [][\A w \in Workers :
            RunJobEnds(w) =>
                IF wk'[w].event \in {"run_succeeded", "run_failed"}
                THEN queue'[wk[w].run_id].state \in {"deleted", "delete_failed"}
                ELSE queue' = queue]_vars

C5_Witness ==
    \E w, v \in Workers :
        /\ wk[w].pc = "done" /\ wk[w].event = "run_retryable_error"
        /\ queue[wk[w].run_id].state = "inflight"
        /\ wk[v].pc = "done" /\ wk[v].event = "run_failed"
        /\ queue[wk[v].run_id].state = "deleted"

\* C6: a message with receive_count >= poison_max_receives leaves the run FAILED
\* with POISON_JOB and failed_stage QUEUE, whatever its status was, without
\* run_job and without a delete
C6_PoisonWhateverStatus ==
    [][\A w \in Workers :
            (Decides(w) /\ wk[w].receive_count >= poison_max_receives) =>
                /\ runs'[wk[w].run_id].status = "FAILED"
                /\ runs'[wk[w].run_id].error_code = "POISON_JOB"
                /\ runs'[wk[w].run_id].failed_stage = "QUEUE"
                /\ wk'[w].pc = "done"
                /\ queue'[wk[w].run_id].state = queue[wk[w].run_id].state]_vars

\* C7: a delivery that reads a record FAILED with POISON_JOB writes nothing: the
\* run store, the queue and the object store are as they were and run_job is
\* not entered, for any receive_count
C7_PoisonFailedIsIgnored ==
    [][\A w \in Workers :
            (Decides(w) /\ IsPoisonFailed(w)) =>
                /\ runs' = runs
                /\ queue' = queue
                /\ errors_object' = errors_object
                /\ wk'[w].pc = "done"]_vars

C7_Witness ==
    \E w \in Workers :
        /\ wk[w].pc = "done" /\ wk[w].event = "poison_job_already_failed"
        /\ runs[wk[w].run_id].status = "FAILED"
        /\ runs[wk[w].run_id].error_code = "POISON_JOB"
        /\ queue[wk[w].run_id].state = "inflight"
        /\ queue[wk[w].run_id].receive_count > poison_max_receives

\* C8: a message for a run of a tenant that has another RUNNING run gets
\* visibility tenant_backoff_seconds (or keeps its visibility, when the queue
\* refuses the call), is not deleted, does not enter run_job, and the run's
\* record is unchanged
C8_TenantLockDefers ==
    [][\A w \in Workers :
            (Decides(w) /\ OtherRunning(wk[w].run_id)) =>
                /\ queue'[wk[w].run_id].visibility
                      \in {tenant_backoff_seconds, queue[wk[w].run_id].visibility}
                /\ queue'[wk[w].run_id].state = queue[wk[w].run_id].state
                /\ wk'[w].pc = "done"
                /\ runs' = runs]_vars

\* C9: once no other run of the tenant is RUNNING, the redelivery of a deferred
\* QUEUED run's message enters run_job, however often it was deferred
C9_DeferredRunStarts ==
    [][\A w \in Workers :
            (/\ Decides(w)
             /\ Deferred(wk[w].run_id)
             /\ runs[wk[w].run_id].status = "QUEUED"
             /\ ~OtherRunning(wk[w].run_id)) => wk'[w].pc = "run_job"]_vars

\* C10: a FAILED record has error_code, failed_stage, finished_at and
\* errors_artifact_key, and the error report object has been uploaded
C10_FailedIsComplete ==
    \A r \in RunIds :
        runs[r].status = "FAILED" =>
            /\ runs[r].error_code # None
            /\ runs[r].failed_stage # None
            /\ runs[r].finished_at # None
            /\ runs[r].errors_artifact_key # None
            /\ errors_object[r]

\* C11: a SUCCEEDED record has stage COMPLETE, finished_at set and every failure
\* field null, also when another attempt of the run wrote failure fields
C11_SucceededIsClean ==
    \A r \in RunIds :
        runs[r].status = "SUCCEEDED" =>
            /\ runs[r].stage = "COMPLETE"
            /\ runs[r].finished_at # None
            /\ runs[r].failed_stage = None
            /\ runs[r].error_code = None
            /\ runs[r].error_message = None
            /\ runs[r].errors_artifact_key = None
            /\ runs[r].error_report_key = None

\* a concurrent attempt has written FAILED through _fail_run and has not yet
\* reached its handler; the other attempt's SUCCEEDED write came after it
C11_Witness ==
    \E w \in Workers :
        /\ wk[w].pc = "NonRetryableError"
        /\ runs[wk[w].run_id].status = "SUCCEEDED"
        /\ runs[wk[w].run_id].error_code = None

\* C12: no step moves the stage stored for a run backwards in the order of
\* stages, two attempts updating the same run concurrently included
C12_StageNeverRegresses ==
    [][\A r \in RunIds :
            runs[r].stage # None =>
                /\ runs'[r].stage # None
                /\ stage_index(runs'[r].stage) >= stage_index(runs[r].stage)]_vars

\* C14: a delivery that reads a RUNNING or SUCCEEDED record calls queue.delete
\* for the message and returns: no run-record write, no upload, no run_job
C14_DuplicateIsDeletedOnly ==
    [][\A w \in Workers :
            (Decides(w) /\ IsDuplicate(w)) =>
                /\ queue'[wk[w].run_id].state \in {"deleted", "delete_failed"}
                /\ runs' = runs
                /\ errors_object' = errors_object
                /\ wk'[w].pc = "done"
                /\ wk'[w].event = "run_already_processed"]_vars

C14_Witness ==
    \E w \in Workers :
        /\ wk[w].pc = "done" /\ wk[w].event = "run_already_processed"
        /\ runs[wk[w].run_id].status = "SUCCEEDED"
        /\ queue[wk[w].run_id].state = "deleted"
        /\ \E v \in Workers :
              /\ wk[v].pc = "done" /\ wk[v].event = "run_already_processed"
              /\ runs[wk[v].run_id].status = "RUNNING"
              /\ queue[wk[v].run_id].state = "deleted"

\* C18: run_job ends by returning, by NonRetryableError (after _fail_run set the
\* run FAILED) or by RetryableError (status not FAILED): no other exception
\* leaves it
C18_OnlyTwoExceptionTypes ==
    [][\A w \in Workers :
            RunJobEnds(w) =>
                /\ wk'[w].event \in {"run_succeeded", "run_failed", "run_retryable_error"}
                /\ wk'[w].event = "run_retryable_error"
                       => runs'[wk[w].run_id].status # "FAILED"]_vars

\* C19: a message whose body is not a valid job is not deleted, does not reach
\* run_job, and its failure does not leave _process_message as an exception
C19_MalformedBodyIsContained ==
    [][\A w \in Workers :
            (wk[w].pc = "model_validate" /\ wk'[w].pc # "model_validate" /\ wk'[w].pc # "dead") =>
                /\ queue' = queue
                /\ runs' = runs
                /\ wk'[w].pc = "done"
                /\ wk'[w].event # "exception"]_vars

\* C20: the config run_job reads is the config that was stored under the run's
\* (tenant_id, config_version) when the run was created, whatever tenant
\* configs the control API stored in between
C20_RunUsesPinnedConfig ==
    (run_config # NotStarted /\ pinned.config # None) => run_config = pinned.config

\* C15: once the error-policy gate has been evaluated the run is in exactly one
\* of three outcomes: FAILED no_rows_parsed when total_rows = 0 and there is no
\* missing-vendor entry; otherwise FAILED validation_errors at MERGE_PRICE when
\* invalid_rows > 0 and a threshold is exceeded; otherwise it goes on to
\* WRITE_OUTPUTS with the warning exactly when invalid_rows > 0
C15_GateHasThreeOutcomes ==
    rj.gate # None =>
        LET invalid_rows == Len(rj.errors)
            total_rows == rj.total_rows
            within_threshold == <<"invalid_rows_within_threshold">>
            warned == \E i \in DOMAIN rj.warnings : rj.warnings[i] = within_threshold
        IN  IF total_rows = 0 /\ rj.missing_vendor_errors = <<>>
            THEN rj.record.status = "FAILED" /\ rj.record.error_code = "no_rows_parsed"
            ELSE IF invalid_rows > 0
                    /\ (invalid_rows > rj.max_invalid_rows
                        \/ invalid_rows * 100 > rj.max_invalid_row_pct * total_rows)
            THEN /\ rj.record.status = "FAILED"
                 /\ rj.record.error_code = "validation_errors"
                 /\ rj.record.failed_stage = "MERGE_PRICE"
            ELSE /\ rj.record.status # "FAILED"
                 /\ rj.record.stage \in {"WRITE_OUTPUTS", "COMPLETE"}
                 /\ warned <=> invalid_rows > 0

C17_WarnOnlyRunSucceeds ==
    (/\ rj.pc = "done"
     /\ rj.raised # "RetryableError"
     /\ rj.missing_required_vendor_policy = "warn_only"
     /\ rj.engine_fault = None
     /\ \E i \in DOMAIN rj.vendors : rj.vendors[i].required /\ ~rj.vendors[i].latest
     /\ \A i \in DOMAIN rj.vendors :
            \/ rj.vendors[i].required /\ ~rj.vendors[i].latest
            \/ rj.vendors[i].latest /\ rj.vendors[i].vendor_errors = 0)
    => (/\ rj.record.status = "SUCCEEDED"
        /\ rj.errors_json # None
        /\ \E i \in DOMAIN rj.errors_json :
              rj.errors_json[i] \in {MissingVendorError("REQUIRED_VENDOR_MISSING", v) : v \in DOMAIN rj.vendors}
        /\ \E i \in DOMAIN rj.warnings : rj.warnings[i][1] = "required_vendor_missing")

MergeReturned == call.fn = "merge_best_offer" /\ call.returned

InStock(item) == item.quantity_available > 0

\* the positions of the input records of a sku
Candidates(sku) == {i \in DOMAIN call.records : call.records[i].sku = sku}

\* r is input record c, up to the lead_time_days fallback
IsSelectionOf(r, c) ==
    r = IF c.lead_time_days = <<>>
        THEN [c EXCEPT !.lead_time_days = <<call.config.fallback_lead_time_days>>]
        ELSE c

\* C21: merge_best_offer returns one record per distinct sku of its input: as
\* many records as there are distinct skus, and no sku twice
C21_OneRecordPerSku ==
    MergeReturned =>
        /\ Len(call.result) = Cardinality({call.records[i].sku : i \in DOMAIN call.records})
        /\ \A i, j \in DOMAIN call.result :
              call.result[i].sku = call.result[j].sku => i = j

C21_Witness ==
    /\ MergeReturned
    /\ Len(call.records) = 3
    /\ Len(call.result) = 2

\* C22: the record selected for a sku is in stock whenever a candidate of the
\* sku is in stock, and its landed cost is minimal among the candidates with
\* its in-stock flag
C22_SelectedIsBestOffer ==
    MergeReturned =>
        \A k \in DOMAIN call.result :
            LET r == call.result[k]
                cands == {call.records[i] : i \in Candidates(r.sku)}
            IN  /\ (\E c \in cands : InStock(c)) => InStock(r)
                /\ \A c \in cands :
                      InStock(c) = InStock(r)
                          => landed_cost(r, call.config) <= landed_cost(c, call.config)

\* a group with a cheaper out-of-stock candidate ahead of two in-stock
\* candidates of different landed cost, shipping included, one cost null
C22_Witness ==
    /\ MergeReturned
    /\ call.config.include_shipping_handling
    /\ Len(call.records) = 3
    /\ Len(call.result) = 1
    /\ ~InStock(call.records[1]) /\ call.records[1].cost = <<>>
    /\ InStock(call.records[2]) /\ call.records[2].cost = <<1>>
    /\ InStock(call.records[3]) /\ call.records[3].cost = <<0>>
    /\ call.result[1].cost = <<0>>

\* C23: the result does not depend on the order of the input: it is ordered by
\* sku ascending, the candidate with the smallest vendor_id is selected among
\* those tied on (in_stock, landed_cost), and every permutation of the input
\* gives the same result
C23_MergeIsOrderIndependent ==
    MergeReturned =>
        /\ \A i, j \in DOMAIN call.result : i < j => call.result[i].sku < call.result[j].sku
        /\ \A k \in DOMAIN call.result :
              \A i \in Candidates(call.result[k].sku) :
                  merge_sort_key(call.records[i], call.config) = merge_sort_key(call.result[k], call.config)
                      => call.result[k].vendor_id <= call.records[i].vendor_id
        /\ \A f \in Permutations(DOMAIN call.records) :
              merge_best_offer([i \in DOMAIN call.records |-> call.records[f[i]]], call.config)
                  = call.result

C25_PriceFollowsTheSteps ==
    (call.fn = "apply_pricing" /\ call.returned) =>
        /\ Len(call.result) = Len(call.records)
        /\ \A i \in DOMAIN call.records :
              LET item == call.records[i]
                  rules == call.rules
                  landed == item.cost[1] + rules.shipping_handling_flat
                  with_margin == (landed * (100 + rules.base_margin_pct)) \div 100
                  floored == IF with_margin < rules.min_price THEN rules.min_price ELSE with_margin
                  increment == rules.rounding.increment
                  \* the multiple of increment nearest to floored, ties upwards
                  rounded == IF increment > 0
                             THEN CHOOSE m \in {k * increment : k \in 0..(floored \div increment + 1)} :
                                     /\ 2 * Abs(m - floored) <= increment
                                     /\ 2 * (floored - m) < increment
                             ELSE floored
                  with_map == IF /\ rules.map_policy.enforce
                                 /\ item.map_price # <<>>
                                 /\ rules.map_policy.map_floor_behavior = "max(price, map_price)"
                                 /\ item.map_price[1] > rounded
                              THEN item.map_price[1]
                              ELSE rounded
              IN  IF item.cost = <<>> THEN call.result[i] = item
                  ELSE call.result[i] = [item EXCEPT !.price = with_map]

\* a record whose margin price is raised to min_price, rounded up from a tie and
\* then raised to its map_price
C25_Witness ==
    /\ call.fn = "apply_pricing" /\ call.returned
    /\ call.rules.min_price = Cents(25)
    /\ call.rules.rounding.increment = Cents(10)
    /\ call.rules.map_policy.enforce
    /\ call.rules.map_policy.map_floor_behavior = "max(price, map_price)"
    /\ \E i \in DOMAIN call.records :
          /\ call.records[i].cost = <<Cents(10)>>
          /\ call.records[i].map_price = <<Cents(35)>>
          /\ call.result[i].price = Cents(35)
    /\ \E i \in DOMAIN call.records :
          /\ call.records[i].cost = <<Cents(10)>>
          /\ call.records[i].map_price = <<>>
          /\ call.result[i].price = Cents(30)

\* C26: pricing the result of apply_pricing again, under the same rules, changes
\* no field of any record
C26_PricingIsIdempotent ==
    (call.fn = "apply_pricing" /\ call.repriced) => call.again = call.result

\* repriced records whose first pricing changed their price
C26_Witness ==
    /\ call.fn = "apply_pricing" /\ call.repriced
    /\ Len(call.records) = 2
    /\ \A i \in DOMAIN call.records :
          call.records[i].cost # <<>> /\ call.result[i].price # call.records[i].price
    /\ call.again = call.result

(* ------------------------- claims on write_csv_bytes -------------------- *)
CsvReturned == call.fn = "write_csv_bytes" /\ call.returned

CsvWritten == CsvReturned /\ call.result # <<<<Value("ValueError", 0)>>>>

\* C27: the encoded bytes do not depend on the order in which the rows are
\* supplied: every permutation of the rows, rows sharing (sku, vendor_id)
\* included, is encoded to the same bytes
C27_BytesAreOrderIndependent ==
    CsvReturned =>
        \A f \in Permutations(DOMAIN call.rows) :
            write_csv_bytes([i \in DOMAIN call.rows |-> call.rows[f[i]]],
                            call.fieldnames, call.extrasaction) = call.result

\* C28: the data rows are emitted in ascending (sku, vendor_id) order when
\* vendor_id is in the field list, and in ascending sku order otherwise
C28_RowsAreSorted ==
    CsvWritten =>
        \A i, j \in 2..Len(call.result) :
            i < j =>
                LET a == call.result[i]
                    b == call.result[j]
                IN  IF HasField(call.fieldnames, "vendor_id")
                    THEN a[1].n < b[1].n \/ (a[1].n = b[1].n /\ a[2].n <= b[2].n)
                    ELSE a[1].n <= b[1].n

\* three rows supplied in descending (sku, vendor_id) order were written with
\* the vendor_id column
C28_Witness ==
    /\ CsvWritten
    /\ HasField(call.fieldnames, "vendor_id")
    /\ Len(call.rows) = 3
    /\ call.rows[1].sku = 2
    /\ call.rows[2].sku = 1 /\ call.rows[2].vendor_id = 2
    /\ call.rows[3].sku = 1 /\ call.rows[3].vendor_id = 1
    /\ call.result[2][2].n = 1 /\ call.result[3][2].n = 2 /\ call.result[4][1].n = 2

\* C29: a price that parses as a decimal is written with two decimal places,
\* rounded half-up (a value halfway between two cents goes up in magnitude);
\* a value that does not parse is written unchanged
C29_DecimalsAreHalfUp ==
    CsvWritten =>
        \A i \in DOMAIN call.rows :
            LET value == call.rows[i].price
                half_up == (Abs(value.n) + 5) \div 10
                expected == IF value.kind \in {"Decimal", "numeric_str"}
                            THEN Str2dp(IF value.n < 0 THEN -half_up ELSE half_up)
                            ELSE IF value.kind = "None" THEN Value("str", 0)
                            ELSE value
            IN  \E k \in 2..Len(call.result) :
                    /\ call.result[k][1].n = call.rows[i].sku
                    /\ call.result[k][Len(call.fieldnames)] = expected

(* --------------------------- claim on list_latest ----------------------- *)
\* C30: list_latest returns the object under the prefix with the largest
\* last_modified, among several of that last_modified the one with the largest
\* key, and none only when no object is under the prefix
C30_LatestWithLargestKeyOnTies ==
    (call.fn = "list_latest" /\ call.returned) =>
        LET under == {k \in ObjectKeys : call.bucket[k] # <<>> /\ call.bucket[k][1].under_prefix}
            modified(k) == call.bucket[k][1].last_modified
        IN  IF under = {} THEN call.result = <<>>
            ELSE /\ call.result # <<>>
                 /\ call.result[1].key \in under
                 /\ call.result[1].last_modified = modified(call.result[1].key)
                 /\ \A k \in under :
                       \/ modified(k) < call.result[1].last_modified
                       \/ (modified(k) = call.result[1].last_modified /\ k <= call.result[1].key)

(* ------------------- claims on the queue loop, continued ----------------- *)
\* C35: while a record is RUNNING the message of its run is still in the queue,
\* visible or in flight, so that the run of a worker that died is delivered again
C35_RunningRunKeepsItsMessage ==
    \A r \in RunIds :
        runs[r].status = "RUNNING" => queue[r].state \in {"visible", "inflight", "delete_failed"}

\* C39: a FAILED record has its stage equal to its failed_stage
C39_FailedStageIsStage ==
    \A r \in RunIds :
        runs[r].status = "FAILED" => runs[r].stage = runs[r].failed_stage

(* ----------------------- claim on compute_price, continued --------------- *)
\* C40: the price of a record with a cost is never below min_price, whatever
\* the rounding increment
C40_PriceIsAtLeastMinPrice ==
    (call.fn = "apply_pricing" /\ call.returned) =>
        \A i \in DOMAIN call.records :
            call.records[i].cost # <<>> => call.result[i].price >= call.rules.min_price

(* --------------------- claim on the engine's summary --------------------- *)
\* C37: in the summary of every engine result invalid_rows (the number of
\* errors) is at most total_rows, so the ratio the gate computes is defined and
\* at most 1 whenever there is an invalid row
C37_InvalidRowsWithinTotalRows ==
    rj.pc \in {"error_report", "error_policy_gate", "WRITE_OUTPUTS", "done"} =>
        /\ Len(rj.errors) <= rj.total_rows
        /\ Len(rj.errors) > 0 => rj.total_rows > 0

(* ------------------- claims on the order of run_job's steps -------------- *)
\* every step b of the steps performed comes after a step a
Precedes(a, b) ==
    \A j \in DOMAIN rj.steps :
        rj.steps[j] = b => \E i \in 1..(j - 1) : rj.steps[i] = a

VendorIndexes == 1..MaxVendors

\* C32: run_job performs its steps in the order of the run state machine: RUNNING is
\* written before the config is loaded, config_snapshot.json is uploaded before
\* a vendor object is fetched, input_manifest.json is uploaded and registered
\* before the missing-vendor policy and the schema check, the engine runs after
\* stage NORMALIZE is written, the normalized files are written before the
\* error gate, the outputs and the summary are uploaded before SUCCEEDED
C32_StepsInOrder ==
    rj.pc \in {"fetch_inputs", "missing_vendor_policy", "normalize", "normalized_csvs",
               "error_policy_gate", "write_outputs", "done"} =>
        /\ Precedes(Step("RUNNING", "FETCH_INPUTS", 0), Step("tenants.get", "config", 0))
        /\ \A v \in VendorIndexes :
              /\ Precedes(Step("upload", "config_snapshot", 0), Step("list_latest", "inbound", v))
              /\ Precedes(Step("upload", "config_snapshot", 0), Step("download", "inbound", v))
        /\ Precedes(Step("upload", "input_manifest", 0), Step("evaluate", "missing_vendor_policy", 0))
        /\ Precedes(Step("artifact", "input_manifest", 0), Step("evaluate", "missing_vendor_policy", 0))
        /\ Precedes(Step("upload", "input_manifest", 0), Step("evaluate", "schema_version", 0))
        /\ Precedes(Step("artifact", "input_manifest", 0), Step("evaluate", "schema_version", 0))
        /\ Precedes(Step("RUNNING", "NORMALIZE", 0), Step("run_inventory_sync", "engine", 0))
        /\ \A v \in normalized_vendors(rj.vendors) :
              Precedes(Step("upload", "normalized", v), Step("evaluate", "error_policy_gate", 0))
        /\ Precedes(Step("upload", "merged_inventory", 0), Step("SUCCEEDED", "COMPLETE", 0))
        /\ Precedes(Step("upload", "run_summary", 0), Step("SUCCEEDED", "COMPLETE", 0))

\* C38: the artifacts of a SUCCEEDED record hold config_snapshot, input_manifest,
\* merged_inventory and run_summary, and inbound and normalized of every vendor
\* with an inbound object; each key of the map was uploaded before SUCCEEDED
\* was written
C38_SucceededArtifactsAreComplete ==
    (rj.pc = "done" /\ record_after(rj.steps).status = "SUCCEEDED") =>
        LET artifacts == record_after(rj.steps).artifacts
        IN  /\ {Artifact(name, 0) : name \in {"config_snapshot", "input_manifest",
                                               "merged_inventory", "run_summary"}} \subseteq artifacts
            /\ \A v \in DOMAIN rj.vendors :
                  rj.vendors[v].latest =>
                      {Artifact("inbound", v), Artifact("normalized", v)} \subseteq artifacts
            /\ \A a \in artifacts :
                  Precedes(Step("upload", a.name, a.vendor), Step("SUCCEEDED", "COMPLETE", 0))

\* a run with one vendor found and one optional vendor missing has succeeded
C38_Witness ==
    /\ rj.pc = "done"
    /\ "steps" \in DOMAIN rj
    /\ record_after(rj.steps).status = "SUCCEEDED"
    /\ Len(rj.vendors) = 2
    /\ rj.vendors[1].latest
    /\ ~rj.vendors[2].latest
    /\ Artifact("errors", 0) \in record_after(rj.steps).artifacts

(* ------------------------- claim on the tenant lock ---------------------- *)
\* C34: the tenant lock is per tenant: a message is deferred only when another
\* run of the same tenant is RUNNING, never because of a RUNNING run of another
\* tenant
C34_TenantLockIsPerTenant ==
    [][\A w \in Workers :
            (Decides(w) /\ wk'[w].event = "tenant_run_in_progress") =>
                OtherRunning(wk[w].run_id)]_vars

\* with the probing store, runs of two tenants are RUNNING at the same time: the
\* message of the second was received while the first was RUNNING and was not deferred
C34_Witness ==
    /\ runs_has_probe
    /\ \E r1, r2 \in RunIds :
          /\ runs[r1].tenant_id # runs[r2].tenant_id
          /\ runs[r1].status = "RUNNING" /\ runs[r2].status = "RUNNING"
          /\ \E w1, w2 \in Workers :
                /\ wk[w1].run_id = r1 /\ wk[w1].pc = "normalize"
                /\ wk[w2].run_id = r2 /\ wk[w2].pc = "fetch_inputs"

(* --------------------------- claims on run_forever ----------------------- *)
\* the _process_message executions submitted and not finished
InFlightFutures == {f \in Futures : loop.future[f].state = "running"}

\* C33: worker_concurrency is at least 1, at most worker_concurrency executions
\* of _process_message are submitted and not finished, and the loop receives a
\* message only when fewer than worker_concurrency are
C33_InFlightWithinConcurrency ==
    loop.pc # "none" =>
        /\ loop.worker_concurrency >= 1
        /\ Cardinality(InFlightFutures) <= loop.worker_concurrency
        /\ loop.pc = "receive" => Cardinality(InFlightFutures) < loop.worker_concurrency

\* with worker_concurrency 2 two executions are in flight and the loop waits
C33_Witness ==
    /\ loop.pc = "wait"
    /\ loop.worker_concurrency = 2
    /\ Cardinality(InFlightFutures) = 2

\* C36: whatever the executions of _process_message end with, run_forever does
\* not terminate: the loop goes on receiving
C36_LoopSurvivesEveryOutcome ==
    loop.pc # "raised"

(* ---------------------- claim on the visibility heartbeat ---------------- *)
\* C31: the visibility of the message is extended when processing starts, the
\* outcome of the job does not depend on the change_visibility calls, and no
\* change_visibility call is issued for the message once the job has ended and
\* the message is deleted or released
C31_HeartbeatStopsWithTheJob ==
    heartbeat.pc # "none" =>
        /\ (heartbeat.pc # "start_visibility_heartbeat" /\ heartbeat.visibility_timeout_seconds > 0)
              => heartbeat.calls >= 1
        /\ heartbeat.pc = "returned" =>
              heartbeat.event = (CASE heartbeat.outcome = "returned" -> "run_succeeded"
                                   [] heartbeat.outcome = "NonRetryableError" -> "run_failed"
                                   [] heartbeat.outcome = "RetryableError" -> "run_retryable_error"
                                   [] OTHER -> "exception")
        /\ heartbeat.late_calls = 0

====
